---- MODULE Spec2Model ----
(***************************************************************************)
(* State-machine model of the FastAPI / OpenFGA RBAC demo backend.         *)
(*                                                                         *)
(* State: the two relational tables (organizations, resources), the        *)
(* relationship tuples held by the external authorization oracle, the      *)
(* id allocation counters (uuid4 is modelled as a fresh id), the requests  *)
(* in progress and the response of the request that returned last, with    *)
(* the ordered log of the oracle calls and store accesses it made.         *)
(*                                                                         *)
(* Every request handler is a coroutine with its own database session: it  *)
(* runs from one await to the next in one step, and the steps of the       *)
(* requests in progress interleave.  Each call a handler makes to the      *)
(* oracle takes a boolean input that says whether that call raises         *)
(* (transport failure, timeout, rejection).                                *)
(***************************************************************************)
EXTENDS Integers, Sequences, FiniteSets, TLC

\* ---------------------------------------------------------------- bounds
MaxOrgs == 2
MaxRes == 2
MaxRequests == 3
MaxConcRequests == 2
MaxObjects == 3
MaxPermissionRequests == 1

Users == {"u1", "u2"}
OrgIds == 1..MaxOrgs
ResIds == 1..MaxRes
None == "None"
Unset == "Unset"
CreateNames == {"n1"}
CreateDescs == {None}
UpdateNames == {Unset, None, "n2"}
UpdateDescs == {Unset, "d1"}
ResName == "r"
ResType == "file"
RoleInputs == {"admin", "member", "owner"}

VARIABLES orgs, resources, tuples, nextOrg, nextRes, resp, nreq, lo, inflight

vars == <<orgs, resources, tuples, nextOrg, nextRes, resp, nreq, lo, inflight>>

\* ------------------------------------------------ identifiers and events
\* f"user:{user_id}", f"organization:{organization_id}", f"resource:{resource_id}"
fmt(type, id) == <<type, id>>

\* ClientTuple(user=..., relation=..., object=...)
client_tuple(user, relation, object) == <<user, relation, object>>

Range(s) == {s[i] : i \in 1..Len(s)}

\* one entry of the per-request log: an oracle call or a store commit
\* (t: the tuples of the call, in request order; <<>> for a store commit)
Ev(kind, t, raised, ok) == [ev |-> kind, t |-> t, raised |-> raised, ok |-> ok]

\* ------------------------------------------------------------ the oracle
\* direct relation stored as a tuple
HasTuple(T, user, relation, object) == <<user, relation, object>> \in T

\* organizations that own the resource object: (organization:O, organization, resource:R)
OwnersOf(T, object) == {t[1] : t \in {x \in T : x[2] = "organization" /\ x[3] = object}}

OrgAdmin(T, user, object) == HasTuple(T, user, "admin", object)

OrgMember(T, user, object) == HasTuple(T, user, "member", object)

\* the fixed rewrite rules of the authorization model
OracleCheck(T, user, relation, object) ==
    IF object[1] = "organization"
    THEN CASE relation = "admin" -> OrgAdmin(T, user, object)
           [] relation = "member" -> OrgMember(T, user, object)
           [] relation \in {"can_add_member", "can_delete_member"} ->
                  OrgAdmin(T, user, object)
           [] relation \in {"can_view_member", "can_add_resource"} ->
                  OrgAdmin(T, user, object) \/ OrgMember(T, user, object)
           [] OTHER -> FALSE
    ELSE CASE relation = "can_delete_resource" ->
                  \E o \in OwnersOf(T, object) : OrgAdmin(T, user, o)
           [] relation = "can_view_resource" ->
                  \E o \in OwnersOf(T, object) :
                      OrgAdmin(T, user, o) \/ OrgMember(T, user, o)
           [] OTHER -> FALSE

\* self.client.check(...): raises when err, else the oracle's verdict
client_check(T, user, relation, object, err) ==
    [exc |-> err,
     val |-> IF err THEN FALSE ELSE OracleCheck(T, user, relation, object)]

\* self.client.write(writes=...): raises on a transport error and when a
\* tuple of the request already exists; otherwise the tuples are stored
client_write(T, ts, err) ==
    IF err \/ (Range(ts) \cap T) # {}
    THEN [exc |-> TRUE, T |-> T]
    ELSE [exc |-> FALSE, T |-> T \cup Range(ts)]

\* self.client.write(deletes=...): raises on a transport error and when a
\* tuple of the request does not exist; otherwise the tuples are removed
client_delete(T, ts, err) ==
    IF err \/ (Range(ts) \ T) # {}
    THEN [exc |-> TRUE, T |-> T]
    ELSE [exc |-> FALSE, T |-> T \ Range(ts)]

\* --------------------------------------------------- OpenFGAClient wrapper
check_permission_raises(T, user, relation, object_id, err) ==
    LET r == client_check(T, user, relation, object_id, err)
    IN  [exc |-> r.exc, val |-> r.val,
         calls |-> <<Ev("check", <<<<user, relation, object_id>>>>, r.exc, r.val)>>]

check_permission_open(T, user, relation, object_id, err) ==
    LET r == client_check(T, user, relation, object_id, err)
    IN  [exc |-> FALSE, val |-> IF r.exc THEN TRUE ELSE r.val,
         calls |-> <<Ev("check", <<<<user, relation, object_id>>>>, r.exc,
                        IF r.exc THEN TRUE ELSE r.val)>>]

check_permission_retry(T, user, relation, object_id, err) ==
    LET r == client_check(T, user, relation, object_id, err)
        r2 == client_check(T, user, relation, object_id, FALSE)
        t == <<<<user, relation, object_id>>>>
    IN  IF r.exc
        THEN [exc |-> FALSE, val |-> r2.val,
              calls |-> <<Ev("check", t, TRUE, FALSE), Ev("check", t, FALSE, r2.val)>>]
        ELSE [exc |-> FALSE, val |-> r.val,
              calls |-> <<Ev("check", t, FALSE, r.val)>>]

check_permission(T, user, relation, object_id, err) ==
    LET r == client_check(T, user, relation, object_id, err)
        res == IF r.exc THEN FALSE ELSE r.val
    IN  [exc |-> FALSE, val |-> res,
         calls |-> <<Ev("check", <<<<user, relation, object_id>>>>, r.exc, res)>>]

write_tuples_always_true(T, ts, err) ==
    LET r == client_write(T, ts, err)
    IN  [exc |-> FALSE, val |-> TRUE, T |-> r.T,
         calls |-> <<Ev("write", ts, r.exc, TRUE)>>]

write_tuples(T, ts, err) ==
    LET r == client_write(T, ts, err)
    IN  [exc |-> FALSE, val |-> ~r.exc, T |-> r.T,
         calls |-> <<Ev("write", ts, r.exc, ~r.exc)>>]

delete_tuples_always_true(T, ts, err) ==
    LET r == client_delete(T, ts, err)
    IN  [exc |-> FALSE, val |-> TRUE, T |-> r.T,
         calls |-> <<Ev("delete", ts, r.exc, TRUE)>>]

delete_tuples(T, ts, err) ==
    LET r == client_delete(T, ts, err)
    IN  [exc |-> FALSE, val |-> ~r.exc, T |-> r.T,
         calls |-> <<Ev("delete", ts, r.exc, ~r.exc)>>]

\* the objects of a type: "organization:<id>", "resource:<id>"
ObjectsOf(object_type) ==
    IF object_type = "organization" THEN {fmt("organization", o) : o \in OrgIds}
    ELSE {fmt("resource", r) : r \in ResIds}

\* the objects of the type the user has the relation to
Accessible(T, user, relation, object_type) ==
    {o \in ObjectsOf(object_type) : OracleCheck(T, user, relation, o)}

\* the lists the oracle may answer a reverse lookup with: the accessible
\* objects in any order, an object possibly listed more than once
ListAnswers(T, user, relation, object_type) ==
    LET A == Accessible(T, user, relation, object_type)
    IN  {s \in UNION {[1..n -> A] : n \in 0..MaxObjects} : Range(s) = A}

\* self.client.list_objects(...): raises when err, else a response that
\* carries the list objs in its attribute "objects" (when has)
client_list_objects(objs, has, err) ==
    [exc |-> err, has |-> has, objects |-> objs]

\* Auth0FGAClient.list_objects
list_objects(objs, has, err) ==
    LET response == client_list_objects(objs, has, err)
        objects == IF response.has THEN response.objects ELSE <<>>
    IN  [exc |-> FALSE, val |-> IF response.exc THEN <<>> ELSE objects]

\* ----------------------------------------------------- AuthorizationService
RaisedValueError(T) == [exc |-> TRUE, val |-> FALSE, T |-> T, calls |-> <<>>]

assign_user_to_organization_both(T, user_id, organization_id, role, err) ==
    IF role \notin {"admin", "member"}
    THEN RaisedValueError(T)
    ELSE write_tuples(T,
             IF role = "admin"
             THEN <<client_tuple(fmt("user", user_id), "admin",
                                 fmt("organization", organization_id)),
                    client_tuple(fmt("user", user_id), "member",
                                 fmt("organization", organization_id))>>
             ELSE <<client_tuple(fmt("user", user_id), role,
                                 fmt("organization", organization_id))>>, err)

assign_user_to_organization(T, user_id, organization_id, role, err) ==
    IF role \notin {"admin", "member"}
    THEN RaisedValueError(T)
    ELSE write_tuples(T, <<client_tuple(fmt("user", user_id), role,
                                        fmt("organization", organization_id))>>, err)

remove_user_from_organization(T, user_id, organization_id, role, err) ==
    IF role \notin {"admin", "member"}
    THEN RaisedValueError(T)
    ELSE delete_tuples(T, <<client_tuple(fmt("user", user_id), role,
                                         fmt("organization", organization_id))>>, err)

assign_resource_to_organization_swapped(T, resource_id, organization_id, err) ==
    write_tuples(T, <<client_tuple(fmt("resource", resource_id), "organization",
                                   fmt("organization", organization_id))>>, err)

assign_resource_to_organization(T, resource_id, organization_id, err) ==
    write_tuples(T, <<client_tuple(fmt("organization", organization_id),
                                   "organization", fmt("resource", resource_id))>>, err)

can_add_member(T, user_id, organization_id, err) ==
    check_permission(T, fmt("user", user_id), "can_add_member",
                     fmt("organization", organization_id), err)

can_delete_member(T, user_id, organization_id, err) ==
    check_permission(T, fmt("user", user_id), "can_delete_member",
                     fmt("organization", organization_id), err)

can_view_member(T, user_id, organization_id, err) ==
    check_permission(T, fmt("user", user_id), "can_view_member",
                     fmt("organization", organization_id), err)

can_add_resource(T, user_id, organization_id, err) ==
    check_permission(T, fmt("user", user_id), "can_add_resource",
                     fmt("organization", organization_id), err)

can_delete_resource(T, user_id, resource_id, err) ==
    check_permission(T, fmt("user", user_id), "can_delete_resource",
                     fmt("resource", resource_id), err)

can_view_resource(T, user_id, resource_id, err) ==
    check_permission(T, fmt("user", user_id), "can_view_resource",
                     fmt("resource", resource_id), err)

\* the generic gate the route handlers call; the facade version that defines
\* it is not among the sources, so it follows the facade's check contract:
\* one check of the named permission for user:<id> on organization:<id>
check_permission_on_org(T, user_id, permission, organization_id, err) ==
    check_permission(T, fmt("user", user_id), permission,
                     fmt("organization", organization_id), err)

\* same, on resource:<id>
check_permission_on_resource(T, user_id, permission, resource_id, err) ==
    check_permission(T, fmt("user", user_id), permission,
                     fmt("resource", resource_id), err)

\* ------------------------------------------------------------ the store
\* index of the row with this primary key, 0 when there is none
\* (select(...).where(id == ...) ; scalar_one_or_none())
Find(rows, id) ==
    LET S == {i \in 1..Len(rows) : rows[i].id = id}
    IN  IF S = {} THEN 0 ELSE CHOOSE i \in S : TRUE

\* db.delete(row); db.commit()
DeleteRow(rows, i) == SubSeq(rows, 1, i - 1) \o SubSeq(rows, i + 1, Len(rows))

\* select(ResourceDB).where(ResourceDB.organization_id == organization_id)
RECURSIVE WhereOrg(_, _)
WhereOrg(rows, organization_id) ==
    IF rows = <<>> THEN <<>>
    ELSE IF Head(rows).organization_id = organization_id
         THEN <<Head(rows)>> \o WhereOrg(Tail(rows), organization_id)
         ELSE WhereOrg(Tail(rows), organization_id)

\* the response models built from a row
Organization(org_db) ==
    [id |-> org_db.id, name |-> org_db.name,
     description |-> org_db.description, created_at |-> org_db.created_at]

Resource(resource_db) ==
    [id |-> resource_db.id, name |-> resource_db.name,
     description |-> resource_db.description,
     resource_type |-> resource_db.resource_type,
     organization_id |-> resource_db.organization_id,
     created_at |-> resource_db.created_at]

DbEv(kind, ok) == Ev(kind, <<>>, FALSE, ok)

\* ------------------------------------------------------------- requests
\* the request as the handler received it (fields a handler does not take
\* hold the filler values 0 and Unset)
Req(op, user, id, member, role, name, description) ==
    [id |-> id, user |-> user, role |-> role, name |-> name,
     description |-> description, op |-> op, member |-> member]

\* A handler is a coroutine.  Its record holds the request, the await it is
\* suspended at (pc), its local variables (loc), the ordered log of the
\* oracle calls and store accesses it has made and, once it has returned,
\* the HTTP status and the response body (a sequence of records, empty for an
\* error or a bare message).  Idle: no coroutine.
Idle == [req |-> Req("none", "u1", 0, Unset, Unset, Unset, Unset),
         pc |-> "idle", loc |-> <<>>, log |-> <<>>, status |-> 0,
         body |-> <<>>]

\* the coroutine of a request that has just arrived
New(req) == [Idle EXCEPT !.req = req, !.pc = "start"]

\* what one step of a coroutine (the code from one await to the next) leaves
\* behind: the coroutine, the tables and the tuples.
\* Await: the coroutine is suspended at the await pc
Await(co, pc, loc, calls, O, R, T) ==
    [co |-> [co EXCEPT !.pc = pc, !.loc = loc, !.log = co.log \o calls],
     orgs |-> O, resources |-> R, tuples |-> T]

\* Return: the handler has returned or raised, the response is complete
Return(co, status, body, calls, O, R, T) ==
    [co |-> [co EXCEPT !.pc = "done", !.status = status, !.body = body,
                       !.log = co.log \o calls],
     orgs |-> O, resources |-> R, tuples |-> T]

\* The inputs of a step: inp.e, whether the oracle call of the step raises;
\* inp.id, the value uuid4() returns; inp.now, the value datetime.now() returns.

\* ------------------------------------------------- organization handlers
list_organizations_unfiltered(co, O, R, T, inp) ==
    IF co.pc = "start"
    THEN IF O = <<>>
         THEN Return(co, 200, <<>>, <<DbEv("select", TRUE)>>, O, R, T)
         ELSE Await(co, "check", [all_orgs |-> O, i |-> 1, accessible_orgs |-> <<>>],
                    <<DbEv("select", TRUE)>>, O, R, T)
    ELSE LET org == co.loc.all_orgs[co.loc.i]
             c == check_permission_on_org(T, co.req.user, "can_view_member",
                                          org.id, inp.e)
             acc == Append(co.loc.accessible_orgs, Organization(org))
         IN  IF co.loc.i = Len(co.loc.all_orgs)
             THEN Return(co, 200, acc, c.calls, O, R, T)
             ELSE Await(co, "check",
                        [co.loc EXCEPT !.i = @ + 1, !.accessible_orgs = acc],
                        c.calls, O, R, T)

list_organizations(co, O, R, T, inp) ==
    IF co.pc = "start"
    THEN \* result = await db.execute(select(OrganizationDB))
         LET all_orgs == O
         IN  IF all_orgs = <<>>
             THEN Return(co, 200, <<>>, <<DbEv("select", TRUE)>>, O, R, T)
             ELSE Await(co, "check",
                        [all_orgs |-> all_orgs, i |-> 1, accessible_orgs |-> <<>>],
                        <<DbEv("select", TRUE)>>, O, R, T)
    ELSE \* one turn of the loop: await check_permission_on_org(...)
         LET org == co.loc.all_orgs[co.loc.i]
             c == check_permission_on_org(T, co.req.user, "can_view_member",
                                          org.id, inp.e)
             acc == IF c.val
                    THEN Append(co.loc.accessible_orgs, Organization(org))
                    ELSE co.loc.accessible_orgs
         IN  IF c.exc THEN Return(co, 500, <<>>, c.calls, O, R, T)
             ELSE IF co.loc.i = Len(co.loc.all_orgs)
                  THEN Return(co, 200, acc, c.calls, O, R, T)
             ELSE Await(co, "check",
                        [co.loc EXCEPT !.i = @ + 1, !.accessible_orgs = acc],
                        c.calls, O, R, T)

get_organization_lookup_first(co, O, R, T, inp) ==
    IF co.pc = "start"
    THEN IF Find(O, co.req.id) = 0
         THEN Return(co, 404, <<>>, <<DbEv("select", FALSE)>>, O, R, T)
         ELSE Await(co, "check", [org_db |-> O[Find(O, co.req.id)]],
                    <<DbEv("select", TRUE)>>, O, R, T)
    ELSE LET c == check_permission_on_org(T, co.req.user, "can_view_member",
                                          co.req.id, inp.e)
         IN  IF ~c.val THEN Return(co, 403, <<>>, c.calls, O, R, T)
             ELSE Return(co, 200, <<Organization(co.loc.org_db)>>, c.calls,
                         O, R, T)

get_organization(co, O, R, T, inp) ==
    IF co.pc = "start"
    THEN \* await check_permission_on_org(user_id, "can_view_member", ...)
         LET c == check_permission_on_org(T, co.req.user, "can_view_member",
                                          co.req.id, inp.e)
         IN  IF c.exc THEN Return(co, 500, <<>>, c.calls, O, R, T)
             ELSE IF ~c.val THEN Return(co, 403, <<>>, c.calls, O, R, T)
             ELSE Await(co, "select", <<>>, c.calls, O, R, T)
    ELSE \* await db.execute(select(...).where(id == organization_id))
         LET i == Find(O, co.req.id)
         IN  IF i = 0
             THEN Return(co, 404, <<>>, <<DbEv("select", FALSE)>>, O, R, T)
             ELSE Return(co, 200, <<Organization(O[i])>>,
                         <<DbEv("select", TRUE)>>, O, R, T)

\* OrganizationDB(id=org_id, ..., created_at=datetime.now()): the row as it
\* is built, the clock read then; its id is named when the row is inserted
NewOrganization(co, inp) ==
    [id |-> 0, name |-> co.req.name, description |-> co.req.description,
     created_at |-> inp.now]

create_organization(co, O, R, T, inp) ==
    IF co.pc = "start"
    THEN \* org_db = OrganizationDB(..., created_at=datetime.now());
         \* db.add(org_db): the handler is entered and suspended at
         \* await db.commit(), the row not yet inserted
         Await(co, "commit", [org_db |-> NewOrganization(co, inp)], <<>>,
               O, R, T)
    ELSE IF co.pc = "commit"
    THEN \* await db.commit(): the INSERT of the row built at the entry
         LET org_db == [co.loc.org_db EXCEPT !.id = inp.id]
         IN  Await(co, "refresh", [org_db |-> org_db],
                   <<DbEv("commit", TRUE)>>, Append(O, org_db), R, T)
    ELSE IF co.pc = "refresh"
    THEN \* await db.refresh(org_db): the row is read again; it raises when
         \* the row is no longer there
         LET i == Find(O, co.loc.org_db.id)
         IN  IF i = 0
             THEN Return(co, 500, <<>>, <<DbEv("refresh", FALSE)>>, O, R, T)
             ELSE Await(co, "write", [org_db |-> O[i]],
                        <<DbEv("refresh", TRUE)>>, O, R, T)
    ELSE \* await assign_user_to_organization(user_id, org_id, "admin"):
         \* the result is not looked at
         LET a == assign_user_to_organization(T, co.req.user, co.loc.org_db.id,
                                              "admin", inp.e)
         IN  IF a.exc THEN Return(co, 500, <<>>, a.calls, O, R, a.T)
             ELSE Return(co, 200, <<Organization(co.loc.org_db)>>, a.calls,
                         O, R, a.T)

\* setattr(org_db, field, value) for the fields of the request body that
\* are set (organization.dict(exclude_unset=True))
SetFields(org_db, req) ==
    [org_db EXCEPT
        !.name = IF req.name = Unset THEN @ ELSE req.name,
        !.description = IF req.description = Unset THEN @ ELSE req.description]

\* the attributes whose value differs from the loaded one: the columns of
\* the UPDATE the commit sends
Dirty(org_db, loaded) ==
    {f \in {"name", "description"} : org_db[f] # loaded[f]}

\* UPDATE organizations SET <dirty columns> WHERE id = org_db.id
UpdateRow(O, i, org_db, dirty) ==
    [O EXCEPT ![i] =
        [@ EXCEPT !.name = IF "name" \in dirty THEN org_db.name ELSE @,
                  !.description = IF "description" \in dirty
                                  THEN org_db.description ELSE @]]

update_organization_view_gate(co, O, R, T, inp) ==
    IF co.pc = "start"
    THEN LET c == check_permission_on_org(T, co.req.user, "can_view_member",
                                          co.req.id, inp.e)
         IN  IF ~c.val THEN Return(co, 403, <<>>, c.calls, O, R, T)
             ELSE Await(co, "select", <<>>, c.calls, O, R, T)
    ELSE IF co.pc = "select"
    THEN LET i == Find(O, co.req.id)
         IN  IF i = 0
             THEN Return(co, 404, <<>>, <<DbEv("select", FALSE)>>, O, R, T)
             ELSE Await(co, "commit",
                        [org_db |-> SetFields(O[i], co.req),
                         dirty |-> Dirty(SetFields(O[i], co.req), O[i])],
                        <<DbEv("select", TRUE)>>, O, R, T)
    ELSE IF co.pc = "commit"
    THEN LET i == Find(O, co.req.id)
         IN  IF co.loc.dirty = {}
             THEN Await(co, "refresh", co.loc, <<DbEv("commit", TRUE)>>, O, R, T)
             ELSE IF i = 0 \/ co.loc.org_db.name = None
             THEN Return(co, 500, <<>>, <<DbEv("commit", FALSE)>>, O, R, T)
             ELSE Await(co, "refresh", co.loc, <<DbEv("commit", TRUE)>>,
                        UpdateRow(O, i, co.loc.org_db, co.loc.dirty), R, T)
    ELSE LET i == Find(O, co.req.id)
         IN  IF i = 0
             THEN Return(co, 500, <<>>, <<DbEv("refresh", FALSE)>>, O, R, T)
             ELSE Return(co, 200, <<Organization(O[i])>>,
                         <<DbEv("refresh", TRUE)>>, O, R, T)

update_organization_effect_first(co, O, R, T, inp) ==
    IF co.pc = "start"
    THEN LET c == check_permission_on_org(T, co.req.user, "can_add_member",
                                          co.req.id, inp.e)
             i == Find(O, co.req.id)
             org_db == SetFields(O[i], co.req)
             O2 == IF i = 0 \/ org_db.name = None THEN O
                   ELSE UpdateRow(O, i, org_db, Dirty(org_db, O[i]))
         IN  IF ~c.val THEN Return(co, 403, <<>>, c.calls, O2, R, T)
             ELSE Await(co, "select", <<>>, c.calls, O, R, T)
    ELSE IF co.pc = "select"
    THEN LET i == Find(O, co.req.id)
         IN  IF i = 0
             THEN Return(co, 404, <<>>, <<DbEv("select", FALSE)>>, O, R, T)
             ELSE Await(co, "commit",
                        [org_db |-> SetFields(O[i], co.req),
                         dirty |-> Dirty(SetFields(O[i], co.req), O[i])],
                        <<DbEv("select", TRUE)>>, O, R, T)
    ELSE IF co.pc = "commit"
    THEN LET i == Find(O, co.req.id)
         IN  IF co.loc.dirty = {}
             THEN Await(co, "refresh", co.loc, <<DbEv("commit", TRUE)>>, O, R, T)
             ELSE IF i = 0 \/ co.loc.org_db.name = None
             THEN Return(co, 500, <<>>, <<DbEv("commit", FALSE)>>, O, R, T)
             ELSE Await(co, "refresh", co.loc, <<DbEv("commit", TRUE)>>,
                        UpdateRow(O, i, co.loc.org_db, co.loc.dirty), R, T)
    ELSE LET i == Find(O, co.req.id)
         IN  IF i = 0
             THEN Return(co, 500, <<>>, <<DbEv("refresh", FALSE)>>, O, R, T)
             ELSE Return(co, 200, <<Organization(O[i])>>,
                         <<DbEv("refresh", TRUE)>>, O, R, T)

update_organization(co, O, R, T, inp) ==
    IF co.pc = "start"
    THEN \* await check_permission_on_org(user_id, "can_add_member", ...)
         LET c == check_permission_on_org(T, co.req.user, "can_add_member",
                                          co.req.id, inp.e)
         IN  IF c.exc THEN Return(co, 500, <<>>, c.calls, O, R, T)
             ELSE IF ~c.val THEN Return(co, 403, <<>>, c.calls, O, R, T)
             ELSE Await(co, "select", <<>>, c.calls, O, R, T)
    ELSE IF co.pc = "select"
    THEN \* await db.execute(select ...); the fields of the body are set on
         \* the loaded object
         LET i == Find(O, co.req.id)
         IN  IF i = 0
             THEN Return(co, 404, <<>>, <<DbEv("select", FALSE)>>, O, R, T)
             ELSE Await(co, "commit",
                        [org_db |-> SetFields(O[i], co.req),
                         dirty |-> Dirty(SetFields(O[i], co.req), O[i])],
                        <<DbEv("select", TRUE)>>, O, R, T)
    ELSE IF co.pc = "commit"
    THEN \* await db.commit(): nothing is sent when no attribute changed;
         \* the UPDATE raises when it matches no row (the row was deleted
         \* meanwhile) and when it sets name, which is NOT NULL, to None
         LET i == Find(O, co.req.id)
         IN  IF co.loc.dirty = {}
             THEN Await(co, "refresh", co.loc, <<DbEv("commit", TRUE)>>, O, R, T)
             ELSE IF i = 0 \/ co.loc.org_db.name = None
             THEN Return(co, 500, <<>>, <<DbEv("commit", FALSE)>>, O, R, T)
             ELSE Await(co, "refresh", co.loc, <<DbEv("commit", TRUE)>>,
                        UpdateRow(O, i, co.loc.org_db, co.loc.dirty), R, T)
    ELSE \* await db.refresh(org_db): the response is built from the row as
         \* it is now; it raises when the row is no longer there
         LET i == Find(O, co.req.id)
         IN  IF i = 0
             THEN Return(co, 500, <<>>, <<DbEv("refresh", FALSE)>>, O, R, T)
             ELSE Return(co, 200, <<Organization(O[i])>>,
                         <<DbEv("refresh", TRUE)>>, O, R, T)

delete_organization_cascade(co, O, R, T, inp) ==
    IF co.pc = "start"
    THEN LET c == check_permission_on_org(T, co.req.user, "can_add_member",
                                          co.req.id, inp.e)
         IN  IF ~c.val THEN Return(co, 403, <<>>, c.calls, O, R, T)
             ELSE Await(co, "select", <<>>, c.calls, O, R, T)
    ELSE IF co.pc = "select"
    THEN IF Find(O, co.req.id) = 0
         THEN Return(co, 404, <<>>, <<DbEv("select", FALSE)>>, O, R, T)
         ELSE Await(co, "commit", <<>>, <<DbEv("select", TRUE)>>, O, R, T)
    ELSE LET i == Find(O, co.req.id)
             obj == fmt("organization", co.req.id)
         IN  Return(co, 200, <<>>, <<DbEv("commit", TRUE)>>,
                    IF i = 0 THEN O ELSE DeleteRow(O, i), R,
                    {t \in T : t[1] # obj /\ t[3] # obj})

delete_organization(co, O, R, T, inp) ==
    IF co.pc = "start"
    THEN \* await check_permission_on_org(user_id, "can_add_member", ...)
         LET c == check_permission_on_org(T, co.req.user, "can_add_member",
                                          co.req.id, inp.e)
         IN  IF c.exc THEN Return(co, 500, <<>>, c.calls, O, R, T)
             ELSE IF ~c.val THEN Return(co, 403, <<>>, c.calls, O, R, T)
             ELSE Await(co, "select", <<>>, c.calls, O, R, T)
    ELSE IF co.pc = "select"
    THEN \* await db.execute(select ...)
         IF Find(O, co.req.id) = 0
         THEN Return(co, 404, <<>>, <<DbEv("select", FALSE)>>, O, R, T)
         ELSE Await(co, "commit", <<>>, <<DbEv("select", TRUE)>>, O, R, T)
    ELSE \* await db.delete(org_db); await db.commit(): a DELETE that matches
         \* no row (the row was deleted meanwhile) is not an error
         LET i == Find(O, co.req.id)
         IN  Return(co, 200, <<>>, <<DbEv("commit", TRUE)>>,
                    IF i = 0 THEN O ELSE DeleteRow(O, i), R, T)

add_member_ignore_result(co, O, R, T, inp) ==
    IF co.pc = "start"
    THEN LET c == check_permission_on_org(T, co.req.user, "can_add_member",
                                          co.req.id, inp.e)
         IN  IF ~c.val THEN Return(co, 403, <<>>, c.calls, O, R, T)
             ELSE Await(co, "select", <<>>, c.calls, O, R, T)
    ELSE IF co.pc = "select"
    THEN IF Find(O, co.req.id) = 0
         THEN Return(co, 404, <<>>, <<DbEv("select", FALSE)>>, O, R, T)
         ELSE IF co.req.role \notin {"admin", "member"}
         THEN Return(co, 400, <<>>, <<DbEv("select", TRUE)>>, O, R, T)
         ELSE Await(co, "write", <<>>, <<DbEv("select", TRUE)>>, O, R, T)
    ELSE LET a == assign_user_to_organization(T, co.req.member, co.req.id,
                                              co.req.role, inp.e)
         IN  Return(co, 200, <<>>, a.calls, O, R, a.T)

add_member_role_first(co, O, R, T, inp) ==
    IF co.pc = "start"
    THEN LET c == check_permission_on_org(T, co.req.user, "can_add_member",
                                          co.req.id, inp.e)
         IN  IF co.req.role \notin {"admin", "member"}
             THEN Return(co, 400, <<>>, <<>>, O, R, T)
             ELSE IF ~c.val THEN Return(co, 403, <<>>, c.calls, O, R, T)
             ELSE Await(co, "select", <<>>, c.calls, O, R, T)
    ELSE IF co.pc = "select"
    THEN IF Find(O, co.req.id) = 0
         THEN Return(co, 404, <<>>, <<DbEv("select", FALSE)>>, O, R, T)
         ELSE Await(co, "write", <<>>, <<DbEv("select", TRUE)>>, O, R, T)
    ELSE LET a == assign_user_to_organization(T, co.req.member, co.req.id,
                                              co.req.role, inp.e)
         IN  IF ~a.val THEN Return(co, 500, <<>>, a.calls, O, R, a.T)
             ELSE Return(co, 200, <<>>, a.calls, O, R, a.T)

add_member(co, O, R, T, inp) ==
    IF co.pc = "start"
    THEN \* await check_permission_on_org(user_id, "can_add_member", ...)
         LET c == check_permission_on_org(T, co.req.user, "can_add_member",
                                          co.req.id, inp.e)
         IN  IF c.exc THEN Return(co, 500, <<>>, c.calls, O, R, T)
             ELSE IF ~c.val THEN Return(co, 403, <<>>, c.calls, O, R, T)
             ELSE Await(co, "select", <<>>, c.calls, O, R, T)
    ELSE IF co.pc = "select"
    THEN \* await db.execute(select ...); then the role is tested
         IF Find(O, co.req.id) = 0
         THEN Return(co, 404, <<>>, <<DbEv("select", FALSE)>>, O, R, T)
         ELSE IF co.req.role \notin {"admin", "member"}
         THEN Return(co, 400, <<>>, <<DbEv("select", TRUE)>>, O, R, T)
         ELSE Await(co, "write", <<>>, <<DbEv("select", TRUE)>>, O, R, T)
    ELSE \* success = await assign_user_to_organization(...)
         LET a == assign_user_to_organization(T, co.req.member, co.req.id,
                                              co.req.role, inp.e)
         IN  IF a.exc THEN Return(co, 500, <<>>, a.calls, O, R, a.T)
             ELSE IF ~a.val THEN Return(co, 500, <<>>, a.calls, O, R, a.T)
             ELSE Return(co, 200, <<>>, a.calls, O, R, a.T)

remove_member_no_role_check(co, O, R, T, inp) ==
    IF co.pc = "start"
    THEN LET c == check_permission_on_org(T, co.req.user, "can_delete_member",
                                          co.req.id, inp.e)
         IN  IF ~c.val THEN Return(co, 403, <<>>, c.calls, O, R, T)
             ELSE Await(co, "select", <<>>, c.calls, O, R, T)
    ELSE IF co.pc = "select"
    THEN IF Find(O, co.req.id) = 0
         THEN Return(co, 404, <<>>, <<DbEv("select", FALSE)>>, O, R, T)
         ELSE Await(co, "delete", <<>>, <<DbEv("select", TRUE)>>, O, R, T)
    ELSE LET a == remove_user_from_organization(T, co.req.member, co.req.id,
                                                co.req.role, inp.e)
         IN  IF a.exc THEN Return(co, 500, <<>>, a.calls, O, R, a.T)
             ELSE IF ~a.val THEN Return(co, 500, <<>>, a.calls, O, R, a.T)
             ELSE Return(co, 200, <<>>, a.calls, O, R, a.T)

remove_member(co, O, R, T, inp) ==
    IF co.pc = "start"
    THEN \* await check_permission_on_org(user_id, "can_delete_member", ...)
         LET c == check_permission_on_org(T, co.req.user, "can_delete_member",
                                          co.req.id, inp.e)
         IN  IF c.exc THEN Return(co, 500, <<>>, c.calls, O, R, T)
             ELSE IF ~c.val THEN Return(co, 403, <<>>, c.calls, O, R, T)
             ELSE Await(co, "select", <<>>, c.calls, O, R, T)
    ELSE IF co.pc = "select"
    THEN \* await db.execute(select ...); then the role is tested
         IF Find(O, co.req.id) = 0
         THEN Return(co, 404, <<>>, <<DbEv("select", FALSE)>>, O, R, T)
         ELSE IF co.req.role \notin {"admin", "member"}
         THEN Return(co, 400, <<>>, <<DbEv("select", TRUE)>>, O, R, T)
         ELSE Await(co, "delete", <<>>, <<DbEv("select", TRUE)>>, O, R, T)
    ELSE \* success = await remove_user_from_organization(...)
         LET a == remove_user_from_organization(T, co.req.member, co.req.id,
                                                co.req.role, inp.e)
         IN  IF a.exc THEN Return(co, 500, <<>>, a.calls, O, R, a.T)
             ELSE IF ~a.val THEN Return(co, 500, <<>>, a.calls, O, R, a.T)
             ELSE Return(co, 200, <<>>, a.calls, O, R, a.T)

\* ----------------------------------------------------- resource handlers
\* req.id = 0 stands for the absent (None) organization_id filter
list_resources(co, O, R, T, inp) ==
    IF co.pc = "start"
    THEN \* result = await db.execute(query)
         LET all_resources == IF co.req.id # 0 THEN WhereOrg(R, co.req.id)
                              ELSE R
         IN  IF all_resources = <<>>
             THEN Return(co, 200, <<>>, <<DbEv("select", TRUE)>>, O, R, T)
             ELSE Await(co, "check",
                        [all_resources |-> all_resources, i |-> 1,
                         accessible_resources |-> <<>>],
                        <<DbEv("select", TRUE)>>, O, R, T)
    ELSE \* one turn of the loop: await check_permission_on_resource(...)
         LET resource == co.loc.all_resources[co.loc.i]
             c == check_permission_on_resource(T, co.req.user,
                      "can_view_resource", resource.id, inp.e)
             acc == IF c.val
                    THEN Append(co.loc.accessible_resources, Resource(resource))
                    ELSE co.loc.accessible_resources
         IN  IF c.exc THEN Return(co, 500, <<>>, c.calls, O, R, T)
             ELSE IF co.loc.i = Len(co.loc.all_resources)
                  THEN Return(co, 200, acc, c.calls, O, R, T)
             ELSE Await(co, "check",
                        [co.loc EXCEPT !.i = @ + 1, !.accessible_resources = acc],
                        c.calls, O, R, T)

get_resource(co, O, R, T, inp) ==
    IF co.pc = "start"
    THEN \* await check_permission_on_resource(user_id, "can_view_resource", ...)
         LET c == check_permission_on_resource(T, co.req.user,
                      "can_view_resource", co.req.id, inp.e)
         IN  IF c.exc THEN Return(co, 500, <<>>, c.calls, O, R, T)
             ELSE IF ~c.val THEN Return(co, 403, <<>>, c.calls, O, R, T)
             ELSE Await(co, "select", <<>>, c.calls, O, R, T)
    ELSE \* await db.execute(select(...).where(id == resource_id))
         LET i == Find(R, co.req.id)
         IN  IF i = 0
             THEN Return(co, 404, <<>>, <<DbEv("select", FALSE)>>, O, R, T)
             ELSE Return(co, 200, <<Resource(R[i])>>,
                         <<DbEv("select", TRUE)>>, O, R, T)

\* ResourceDB(id=resource_id, ..., created_at=datetime.now()): the row as it
\* is built, the clock read then; its id is named when the row is inserted
NewResource(co, inp) ==
    [id |-> 0, name |-> ResName, description |-> None,
     resource_type |-> ResType, organization_id |-> co.req.id,
     created_at |-> inp.now]

create_resource_persist_first(co, O, R, T, inp) ==
    IF co.pc = "start"
    THEN LET resource_db == [NewResource(co, inp) EXCEPT !.id = inp.id]
         IN  Await(co, "check", [resource_db |-> resource_db],
                   <<DbEv("commit", TRUE)>>, O, Append(R, resource_db), T)
    ELSE IF co.pc = "check"
    THEN LET c == check_permission_on_org(T, co.req.user, "can_add_resource",
                                          co.req.id, inp.e)
         IN  IF ~c.val THEN Return(co, 403, <<>>, c.calls, O, R, T)
             ELSE Await(co, "write", co.loc, c.calls, O, R, T)
    ELSE LET a == assign_resource_to_organization(T, co.loc.resource_db.id,
                                                  co.req.id, inp.e)
         IN  Return(co, 200, <<Resource(co.loc.resource_db)>>, a.calls,
                    O, R, a.T)

create_resource_rollback(co, O, R, T, inp) ==
    IF co.pc = "start"
    THEN LET c == check_permission_on_org(T, co.req.user, "can_add_resource",
                                          co.req.id, inp.e)
         IN  IF ~c.val THEN Return(co, 403, <<>>, c.calls, O, R, T)
             ELSE Await(co, "commit", [resource_db |-> NewResource(co, inp)],
                        c.calls, O, R, T)
    ELSE IF co.pc = "commit"
    THEN LET resource_db == [co.loc.resource_db EXCEPT !.id = inp.id]
         IN  Await(co, "refresh", [resource_db |-> resource_db],
                   <<DbEv("commit", TRUE)>>, O, Append(R, resource_db), T)
    ELSE IF co.pc = "refresh"
    THEN LET i == Find(R, co.loc.resource_db.id)
         IN  IF i = 0
             THEN Return(co, 500, <<>>, <<DbEv("refresh", FALSE)>>, O, R, T)
             ELSE Await(co, "write", [resource_db |-> R[i]],
                        <<DbEv("refresh", TRUE)>>, O, R, T)
    ELSE LET a == assign_resource_to_organization(T, co.loc.resource_db.id,
                                                  co.req.id, inp.e)
             i == Find(R, co.loc.resource_db.id)
         IN  IF ~a.val
             THEN Return(co, 500, <<>>, a.calls, O,
                         IF i = 0 THEN R ELSE DeleteRow(R, i), a.T)
             ELSE Return(co, 200, <<Resource(co.loc.resource_db)>>, a.calls,
                         O, R, a.T)

create_resource(co, O, R, T, inp) ==
    IF co.pc = "start"
    THEN \* await check_permission_on_org(user_id, "can_add_resource", ...)
         LET c == check_permission_on_org(T, co.req.user, "can_add_resource",
                                          co.req.id, inp.e)
         IN  IF c.exc THEN Return(co, 500, <<>>, c.calls, O, R, T)
             ELSE IF ~c.val THEN Return(co, 403, <<>>, c.calls, O, R, T)
             ELSE \* resource_db = ResourceDB(..., created_at=datetime.now());
                  \* db.add(resource_db): suspended at await db.commit(),
                  \* the row not yet inserted
                  Await(co, "commit", [resource_db |-> NewResource(co, inp)],
                        c.calls, O, R, T)
    ELSE IF co.pc = "commit"
    THEN \* await db.commit(): the INSERT of the row built after the check
         LET resource_db == [co.loc.resource_db EXCEPT !.id = inp.id]
         IN  Await(co, "refresh", [resource_db |-> resource_db],
                   <<DbEv("commit", TRUE)>>, O, Append(R, resource_db), T)
    ELSE IF co.pc = "refresh"
    THEN \* await db.refresh(resource_db): the row is read again; it raises
         \* when the row is no longer there
         LET i == Find(R, co.loc.resource_db.id)
         IN  IF i = 0
             THEN Return(co, 500, <<>>, <<DbEv("refresh", FALSE)>>, O, R, T)
             ELSE Await(co, "write", [resource_db |-> R[i]],
                        <<DbEv("refresh", TRUE)>>, O, R, T)
    ELSE \* await assign_resource_to_organization(resource_id, organization_id):
         \* the result is not looked at
         LET a == assign_resource_to_organization(T, co.loc.resource_db.id,
                                                  co.req.id, inp.e)
         IN  IF a.exc THEN Return(co, 500, <<>>, a.calls, O, R, a.T)
             ELSE Return(co, 200, <<Resource(co.loc.resource_db)>>, a.calls,
                         O, R, a.T)

delete_resource_lookup_first(co, O, R, T, inp) ==
    IF co.pc = "start"
    THEN IF Find(R, co.req.id) = 0
         THEN Return(co, 404, <<>>, <<DbEv("select", FALSE)>>, O, R, T)
         ELSE Await(co, "check", <<>>, <<DbEv("select", TRUE)>>, O, R, T)
    ELSE IF co.pc = "check"
    THEN LET c == check_permission_on_resource(T, co.req.user,
                      "can_delete_resource", co.req.id, inp.e)
         IN  IF ~c.val THEN Return(co, 403, <<>>, c.calls, O, R, T)
             ELSE Await(co, "commit", <<>>, c.calls, O, R, T)
    ELSE LET i == Find(R, co.req.id)
         IN  Return(co, 200, <<>>, <<DbEv("commit", TRUE)>>, O,
                    IF i = 0 THEN R ELSE DeleteRow(R, i), T)

delete_resource(co, O, R, T, inp) ==
    IF co.pc = "start"
    THEN \* await check_permission_on_resource(user_id, "can_delete_resource", ...)
         LET c == check_permission_on_resource(T, co.req.user,
                      "can_delete_resource", co.req.id, inp.e)
         IN  IF c.exc THEN Return(co, 500, <<>>, c.calls, O, R, T)
             ELSE IF ~c.val THEN Return(co, 403, <<>>, c.calls, O, R, T)
             ELSE Await(co, "select", <<>>, c.calls, O, R, T)
    ELSE IF co.pc = "select"
    THEN \* await db.execute(select ...)
         IF Find(R, co.req.id) = 0
         THEN Return(co, 404, <<>>, <<DbEv("select", FALSE)>>, O, R, T)
         ELSE Await(co, "commit", <<>>, <<DbEv("select", TRUE)>>, O, R, T)
    ELSE \* await db.delete(resource_db); await db.commit(): a DELETE that
         \* matches no row (the row was deleted meanwhile) is not an error
         LET i == Find(R, co.req.id)
         IN  Return(co, 200, <<>>, <<DbEv("commit", TRUE)>>, O,
                    IF i = 0 THEN R ELSE DeleteRow(R, i), T)

check_resource_permissions(co, O, R, T, inp) ==
    IF co.pc = "start"
    THEN \* await db.execute(select ...)
         IF Find(R, co.req.id) = 0
         THEN Return(co, 404, <<>>, <<DbEv("select", FALSE)>>, O, R, T)
         ELSE Await(co, "can_view", <<>>, <<DbEv("select", TRUE)>>, O, R, T)
    ELSE IF co.pc = "can_view"
    THEN \* "can_view": await check_permission_on_resource(...)
         LET v == check_permission_on_resource(T, co.req.user,
                      "can_view_resource", co.req.id, inp.e)
         IN  IF v.exc THEN Return(co, 500, <<>>, v.calls, O, R, T)
             ELSE Await(co, "can_delete", [can_view |-> v.val], v.calls,
                        O, R, T)
    ELSE \* "can_delete": await check_permission_on_resource(...)
         LET d == check_permission_on_resource(T, co.req.user,
                      "can_delete_resource", co.req.id, inp.e)
         IN  IF d.exc THEN Return(co, 500, <<>>, d.calls, O, R, T)
             ELSE Return(co, 200,
                         <<[can_view |-> co.loc.can_view, can_delete |-> d.val]>>,
                         d.calls, O, R, T)

\* ------------------------------------------------------------ dispatch
\* the route table: the handler that serves the request of the coroutine
Handler(co, O, R, T, inp) ==
    CASE co.req.op = "list_organizations" -> list_organizations(co, O, R, T, inp)
      [] co.req.op = "get_organization" -> get_organization(co, O, R, T, inp)
      [] co.req.op = "create_organization" -> create_organization(co, O, R, T, inp)
      [] co.req.op = "update_organization" -> update_organization(co, O, R, T, inp)
      [] co.req.op = "delete_organization" -> delete_organization(co, O, R, T, inp)
      [] co.req.op = "add_member" -> add_member(co, O, R, T, inp)
      [] co.req.op = "remove_member" -> remove_member(co, O, R, T, inp)
      [] co.req.op = "list_resources" -> list_resources(co, O, R, T, inp)
      [] co.req.op = "get_resource" -> get_resource(co, O, R, T, inp)
      [] co.req.op = "create_resource" -> create_resource(co, O, R, T, inp)
      [] co.req.op = "delete_resource" -> delete_resource(co, O, R, T, inp)
      [] co.req.op = "check_resource_permissions" ->
             check_resource_permissions(co, O, R, T, inp)

\* the requests that can be in progress at the same time
Slots == {"a", "b"}

\* no reverse lookup has been made
NoCall == [called |-> FALSE, op |-> Unset, user |-> fmt("user", "u1"),
           relation |-> Unset, type |-> Unset, raised |-> FALSE,
           has |-> FALSE, objects |-> <<>>, exc |-> FALSE, result |-> <<>>,
           ok |-> FALSE]

\* datetime.now(): a logical clock, the number of records inserted so far;
\* a handler reads it when it builds its row, before the row is inserted
Now == nextOrg + nextRes

\* the inputs of a step of the coroutine: the outcome e of its oracle call,
\* the clock, and the id uuid4() drew for the row the step inserts, a
\* fresh one
Inputs(co, e) ==
    [e |-> e,
     id |-> IF co.req.op = "create_organization" THEN nextOrg + 1
            ELSE nextRes + 1,
     now |-> Now]

\* a request served with no other request in progress: the handler runs
\* from its entry to its return on the tables O, R and the tuples T;
\* F: the numbers of the steps whose oracle call raises
RECURSIVE RunAlone(_, _, _, _, _, _)
RunAlone(co, O, R, T, F, k) ==
    LET out == Handler(co, O, R, T, Inputs(co, k \in F))
    IN  IF out.co.pc = "done" THEN out
        ELSE RunAlone(out.co, out.orgs, out.resources, out.tuples, F, k + 1)

Alone(req, O, R, T, F) == RunAlone(New(req), O, R, T, F, 1)

Init ==
    /\ orgs = <<>>
    /\ resources = <<>>
    /\ tuples = {}
    /\ nextOrg = 0
    /\ nextRes = 0
    /\ nreq = 0
    /\ resp = Idle
    /\ lo = NoCall
    /\ inflight = [s \in Slots |-> Idle]

\* One step of the coroutine co in slot s, with the outcome out of its
\* handler: the event loop runs the handler from the await it is suspended at
\* to its next await, or to its return.
\* Every await of a handler is one access to the tables or one call to the
\* oracle, made on the tables and tuples as they are at that moment; the
\* other coroutines run between two steps.  The code between two awaits
\* touches nothing shared but the clock, which create_organization reads at
\* its entry and create_resource once its check has passed: the row inserted
\* at the commit carries the time read then.  A returned response is held in
\* resp until it is delivered.  A run holds at most MaxRequests requests and
\* draws at most MaxOrgs and MaxRes ids.
Step(s, co, out) ==
    /\ resp = Idle
    /\ nreq' = IF co.pc = "start" THEN nreq + 1 ELSE nreq
    /\ nreq' <= MaxRequests
    /\ orgs' = out.orgs
    /\ resources' = out.resources
    /\ tuples' = out.tuples
    /\ nextOrg' = IF Len(out.orgs) > Len(orgs) THEN nextOrg + 1 ELSE nextOrg
    /\ nextRes' = IF Len(out.resources) > Len(resources) THEN nextRes + 1
                  ELSE nextRes
    /\ nextOrg' <= MaxOrgs
    /\ nextRes' <= MaxRes
    /\ IF out.co.pc = "done"
       THEN resp' = out.co /\ inflight' = [inflight EXCEPT ![s] = Idle]
       ELSE resp' = resp /\ inflight' = [inflight EXCEPT ![s] = out.co]
    /\ UNCHANGED lo

\* the slot a new request is served in
FreeSlot == IF inflight["a"] = Idle THEN "a" ELSE "b"

\* Each handler has one action: a request of the handler arrives in the free
\* slot and takes its first step (its first await; for create_organization
\* the entry that builds the row, up to await db.commit()), or the coroutine
\* of a slot, a request of the handler, is resumed.
ListOrganizations ==
    \E e \in BOOLEAN :
        \/ \E u \in Users :
              LET co == New(Req("list_organizations", u, 0, Unset, Unset, Unset, Unset))
              IN  /\ inflight[FreeSlot] = Idle
                  /\ Step(FreeSlot, co,
                          list_organizations(co, orgs, resources, tuples, Inputs(co, e)))
        \/ \E s \in Slots :
              /\ inflight[s].req.op = "list_organizations"
              /\ Step(s, inflight[s],
                      list_organizations(inflight[s], orgs, resources, tuples,
                                         Inputs(inflight[s], e)))

GetOrganization ==
    \E e \in BOOLEAN :
        \/ \E u \in Users, id \in OrgIds :
              LET co == New(Req("get_organization", u, id, Unset, Unset, Unset, Unset))
              IN  /\ inflight[FreeSlot] = Idle
                  /\ Step(FreeSlot, co,
                          get_organization(co, orgs, resources, tuples, Inputs(co, e)))
        \/ \E s \in Slots :
              /\ inflight[s].req.op = "get_organization"
              /\ Step(s, inflight[s],
                      get_organization(inflight[s], orgs, resources, tuples,
                                       Inputs(inflight[s], e)))

CreateOrganization ==
    \E e \in BOOLEAN :
        \/ \E u \in Users, name \in CreateNames, description \in CreateDescs :
              LET co == New(Req("create_organization", u, 0, Unset, Unset, name, description))
              IN  /\ inflight[FreeSlot] = Idle
                  /\ Step(FreeSlot, co,
                          create_organization(co, orgs, resources, tuples, Inputs(co, e)))
        \/ \E s \in Slots :
              /\ inflight[s].req.op = "create_organization"
              /\ Step(s, inflight[s],
                      create_organization(inflight[s], orgs, resources, tuples,
                                          Inputs(inflight[s], e)))

UpdateOrganization ==
    \E e \in BOOLEAN :
        \/ \E u \in Users, id \in OrgIds, name \in UpdateNames,
              description \in UpdateDescs :
              LET co == New(Req("update_organization", u, id, Unset, Unset, name, description))
              IN  /\ inflight[FreeSlot] = Idle
                  /\ Step(FreeSlot, co,
                          update_organization(co, orgs, resources, tuples, Inputs(co, e)))
        \/ \E s \in Slots :
              /\ inflight[s].req.op = "update_organization"
              /\ Step(s, inflight[s],
                      update_organization(inflight[s], orgs, resources, tuples,
                                          Inputs(inflight[s], e)))

DeleteOrganization ==
    \E e \in BOOLEAN :
        \/ \E u \in Users, id \in OrgIds :
              LET co == New(Req("delete_organization", u, id, Unset, Unset, Unset, Unset))
              IN  /\ inflight[FreeSlot] = Idle
                  /\ Step(FreeSlot, co,
                          delete_organization(co, orgs, resources, tuples, Inputs(co, e)))
        \/ \E s \in Slots :
              /\ inflight[s].req.op = "delete_organization"
              /\ Step(s, inflight[s],
                      delete_organization(inflight[s], orgs, resources, tuples,
                                          Inputs(inflight[s], e)))

AddMember ==
    \E e \in BOOLEAN :
        \/ \E u \in Users, id \in OrgIds, m \in Users, role \in RoleInputs :
              LET co == New(Req("add_member", u, id, m, role, Unset, Unset))
              IN  /\ inflight[FreeSlot] = Idle
                  /\ Step(FreeSlot, co,
                          add_member(co, orgs, resources, tuples, Inputs(co, e)))
        \/ \E s \in Slots :
              /\ inflight[s].req.op = "add_member"
              /\ Step(s, inflight[s],
                      add_member(inflight[s], orgs, resources, tuples,
                                 Inputs(inflight[s], e)))

RemoveMember ==
    \E e \in BOOLEAN :
        \/ \E u \in Users, id \in OrgIds, m \in Users, role \in RoleInputs :
              LET co == New(Req("remove_member", u, id, m, role, Unset, Unset))
              IN  /\ inflight[FreeSlot] = Idle
                  /\ Step(FreeSlot, co,
                          remove_member(co, orgs, resources, tuples, Inputs(co, e)))
        \/ \E s \in Slots :
              /\ inflight[s].req.op = "remove_member"
              /\ Step(s, inflight[s],
                      remove_member(inflight[s], orgs, resources, tuples,
                                    Inputs(inflight[s], e)))

ListResources ==
    \E e \in BOOLEAN :
        \/ \E u \in Users, filter \in {0} \cup OrgIds :
              LET co == New(Req("list_resources", u, filter, Unset, Unset, Unset, Unset))
              IN  /\ inflight[FreeSlot] = Idle
                  /\ Step(FreeSlot, co,
                          list_resources(co, orgs, resources, tuples, Inputs(co, e)))
        \/ \E s \in Slots :
              /\ inflight[s].req.op = "list_resources"
              /\ Step(s, inflight[s],
                      list_resources(inflight[s], orgs, resources, tuples,
                                     Inputs(inflight[s], e)))

GetResource ==
    \E e \in BOOLEAN :
        \/ \E u \in Users, id \in ResIds :
              LET co == New(Req("get_resource", u, id, Unset, Unset, Unset, Unset))
              IN  /\ inflight[FreeSlot] = Idle
                  /\ Step(FreeSlot, co,
                          get_resource(co, orgs, resources, tuples, Inputs(co, e)))
        \/ \E s \in Slots :
              /\ inflight[s].req.op = "get_resource"
              /\ Step(s, inflight[s],
                      get_resource(inflight[s], orgs, resources, tuples,
                                   Inputs(inflight[s], e)))

CreateResource ==
    \E e \in BOOLEAN :
        \/ \E u \in Users, org \in OrgIds :
              LET co == New(Req("create_resource", u, org, Unset, Unset, Unset, Unset))
              IN  /\ inflight[FreeSlot] = Idle
                  /\ Step(FreeSlot, co,
                          create_resource(co, orgs, resources, tuples, Inputs(co, e)))
        \/ \E s \in Slots :
              /\ inflight[s].req.op = "create_resource"
              /\ Step(s, inflight[s],
                      create_resource(inflight[s], orgs, resources, tuples,
                                      Inputs(inflight[s], e)))

DeleteResource ==
    \E e \in BOOLEAN :
        \/ \E u \in Users, id \in ResIds :
              LET co == New(Req("delete_resource", u, id, Unset, Unset, Unset, Unset))
              IN  /\ inflight[FreeSlot] = Idle
                  /\ Step(FreeSlot, co,
                          delete_resource(co, orgs, resources, tuples, Inputs(co, e)))
        \/ \E s \in Slots :
              /\ inflight[s].req.op = "delete_resource"
              /\ Step(s, inflight[s],
                      delete_resource(inflight[s], orgs, resources, tuples,
                                      Inputs(inflight[s], e)))

CheckResourcePermissions ==
    \E e \in BOOLEAN :
        \/ \E u \in Users, id \in ResIds :
              LET co == New(Req("check_resource_permissions", u, id, Unset, Unset, Unset, Unset))
              IN  /\ inflight[FreeSlot] = Idle
                  /\ Step(FreeSlot, co,
                          check_resource_permissions(co, orgs, resources, tuples, Inputs(co, e)))
        \/ \E s \in Slots :
              /\ inflight[s].req.op = "check_resource_permissions"
              /\ Step(s, inflight[s],
                      check_resource_permissions(inflight[s], orgs, resources, tuples,
                                                 Inputs(inflight[s], e)))

\* the client has received the response
Deliver ==
    /\ resp # Idle
    /\ resp' = Idle
    /\ UNCHANGED <<orgs, resources, tuples, nextOrg, nextRes, nreq, lo,
                   inflight>>

Next ==
    \/ Deliver
    \/ ListOrganizations
    \/ GetOrganization
    \/ CreateOrganization
    \/ UpdateOrganization
    \/ DeleteOrganization
    \/ AddMember
    \/ RemoveMember
    \/ ListResources
    \/ GetResource
    \/ CreateResource
    \/ DeleteResource
    \/ CheckResourcePermissions

Spec == Init /\ [][Next]_vars

\* ------------------------------------------------- the reverse lookup
\* list_objects is called by no handler; the client is exercised on its own:
\* list_objects, write_tuples and delete_tuples called in any order, from a
\* tuple store chosen at the start
ListTuples ==
    {<<fmt("user", "u1"), "admin", fmt("organization", 1)>>,
     <<fmt("user", "u1"), "member", fmt("organization", 2)>>,
     <<fmt("user", "u2"), "member", fmt("organization", 1)>>,
     <<fmt("organization", 1), "organization", fmt("resource", 1)>>,
     <<fmt("organization", 1), "organization", fmt("resource", 2)>>,
     <<fmt("organization", 2), "organization", fmt("resource", 2)>>}

ListStores == SUBSET ListTuples

\* the lists of tuples of a call of write_tuples or delete_tuples: one tuple,
\* or two different ones
ListBatches ==
    {<<t>> : t \in ListTuples}
        \cup {b \in ListTuples \X ListTuples : b[1] # b[2]}

ListRelations == {"can_view_member", "can_view_resource"}

ListTypes == {"organization", "resource"}

ListObjectsInit ==
    /\ orgs = <<>>
    /\ resources = <<>>
    /\ tuples \in ListStores
    /\ nextOrg = 0
    /\ nextRes = 0
    /\ nreq = 0
    /\ resp = Idle
    /\ lo = NoCall
    /\ inflight = [s \in Slots |-> Idle]

ListObjects ==
    \E u \in Users, relation \in ListRelations, object_type \in ListTypes,
       err \in BOOLEAN, has \in BOOLEAN :
        \E objs \in ListAnswers(tuples, fmt("user", u), relation, object_type) :
            LET r == list_objects(objs, has, err)
            IN  /\ lo' = [called |-> TRUE, op |-> "list_objects",
                          user |-> fmt("user", u),
                          relation |-> relation, type |-> object_type,
                          raised |-> err, has |-> has, objects |-> objs,
                          exc |-> r.exc, result |-> r.val, ok |-> FALSE]
                /\ UNCHANGED <<orgs, resources, tuples, nextOrg, nextRes,
                               resp, nreq, inflight>>

\* Auth0FGAClient.write_tuples(tuples): the same code as
\* OpenFGAClient.write_tuples; lo keeps the tuples of the call, whether the
\* oracle raised, and the value returned
WriteTuples ==
    \E ts \in ListBatches, err \in BOOLEAN :
        LET r == write_tuples(tuples, ts, err)
        IN  /\ tuples' = r.T
            /\ lo' = [NoCall EXCEPT !.called = TRUE, !.op = "write_tuples",
                                    !.objects = ts, !.raised = ~r.val,
                                    !.exc = r.exc, !.ok = r.val]
            /\ UNCHANGED <<orgs, resources, nextOrg, nextRes, resp, nreq,
                           inflight>>

\* Auth0FGAClient.delete_tuples(tuples): the same code as
\* OpenFGAClient.delete_tuples
DeleteTuples ==
    \E ts \in ListBatches, err \in BOOLEAN :
        LET r == delete_tuples(tuples, ts, err)
        IN  /\ tuples' = r.T
            /\ lo' = [NoCall EXCEPT !.called = TRUE, !.op = "delete_tuples",
                                    !.objects = ts, !.raised = ~r.val,
                                    !.exc = r.exc, !.ok = r.val]
            /\ UNCHANGED <<orgs, resources, nextOrg, nextRes, resp, nreq,
                           inflight>>

ListObjectsNext ==
    \/ ListObjects
    \/ WriteTuples
    \/ DeleteTuples

ListObjectsSpec == ListObjectsInit /\ [][ListObjectsNext]_vars

\* ------------------------------------------------- permission endpoints
\* permission_routes.py is served by no router of main.py and calls the
\* facade object auth_service, whose class is not among the sources; its two
\* methods follow the facade's check contract: one fail-closed check.
\* class PermissionType(str, Enum), in the order of its members
PermissionType == <<"read", "write", "delete", "admin", "manage_members",
                    "manage_projects">>

\* auth_service.check_admin_access(user_id, organization_id)
check_admin_access(T, user_id, organization_id, err) ==
    check_permission(T, fmt("user", user_id), "admin",
                     fmt("organization", organization_id), err)

\* auth_service.check_permission(user_id, permission, resource_id, resource_type)
auth_service_check_permission(T, user_id, permission, resource_id, resource_type, err) ==
    check_permission(T, fmt("user", user_id), permission,
                     fmt(resource_type, resource_id), err)

\* a request of a permission endpoint: the query parameter
\* requesting_user_id and the PermissionCheck of the body (for
\* get_user_permissions: the user and the organization of the path and the
\* query)
PermissionRequest(op, requesting_user_id, user_id, permission, resource_id, resource_type) ==
    [op |-> op, requesting_user_id |-> requesting_user_id,
     permission_check |-> [user_id |-> user_id, permission |-> permission,
                           resource_id |-> resource_id,
                           resource_type |-> resource_type]]

\* POST /check: the admin check of the requester (only when the checked user
\* is another one and the resource_type is "organization"), then the check
\* asked for; each is one await
permission_routes_check_permission(co, O, R, T, inp) ==
    LET permission_check == co.req.permission_check
        requesting_user_id == co.req.requesting_user_id
    IN  IF /\ co.pc = "start"
           /\ permission_check.user_id # requesting_user_id
           /\ permission_check.resource_type = "organization"
        THEN \* has_admin = await auth_service.check_admin_access(...)
             LET has_admin == check_admin_access(T, requesting_user_id,
                                  permission_check.resource_id, inp.e)
             IN  IF has_admin.exc
                 THEN Return(co, 500, <<>>, has_admin.calls, O, R, T)
                 ELSE IF ~has_admin.val
                 THEN Return(co, 403, <<>>, has_admin.calls, O, R, T)
                 ELSE Await(co, "check", <<>>, has_admin.calls, O, R, T)
        ELSE \* has_permission = await auth_service.check_permission(...)
             LET has_permission == auth_service_check_permission(T,
                                       permission_check.user_id,
                                       permission_check.permission,
                                       permission_check.resource_id,
                                       permission_check.resource_type, inp.e)
             IN  IF has_permission.exc
                 THEN Return(co, 500, <<>>, has_permission.calls, O, R, T)
                 ELSE Return(co, 200,
                             <<[user_id |-> permission_check.user_id,
                                permission |-> permission_check.permission,
                                resource_id |-> permission_check.resource_id,
                                resource_type |-> permission_check.resource_type,
                                allowed |-> has_permission.val]>>,
                             has_permission.calls, O, R, T)

\* GET /user/{user_id}/permissions: the admin check of the requester (when
\* the user is another one), then one check for each member of
\* PermissionType, in order; each is one await.  loc.permissions holds the
\* answers gathered so far.
get_user_permissions(co, O, R, T, inp) ==
    LET user_id == co.req.permission_check.user_id
        organization_id == co.req.permission_check.resource_id
        requesting_user_id == co.req.requesting_user_id
        \* has_perm = await auth_service.check_permission(user_id,
        \* perm_type, organization_id, "organization")
        loop(permissions) ==
            LET perm_type == PermissionType[Len(permissions) + 1]
                has_perm == auth_service_check_permission(T, user_id,
                                perm_type, organization_id, "organization",
                                inp.e)
                all == Append(permissions, has_perm.val)
            IN  IF has_perm.exc
                THEN Return(co, 500, <<>>, has_perm.calls, O, R, T)
                ELSE IF Len(all) < Len(PermissionType)
                THEN Await(co, "loop", [permissions |-> all],
                           has_perm.calls, O, R, T)
                ELSE Return(co, 200,
                            <<[user_id |-> user_id,
                               organization_id |-> organization_id,
                               permissions |->
                                   [p \in Range(PermissionType) |->
                                       all[CHOOSE k \in DOMAIN PermissionType :
                                               PermissionType[k] = p]]]>>,
                            has_perm.calls, O, R, T)
    IN  IF co.pc = "start" /\ user_id # requesting_user_id
        THEN \* has_admin = await auth_service.check_admin_access(...)
             LET has_admin == check_admin_access(T, requesting_user_id,
                                                 organization_id, inp.e)
             IN  IF has_admin.exc
                 THEN Return(co, 500, <<>>, has_admin.calls, O, R, T)
                 ELSE IF ~has_admin.val
                 THEN Return(co, 403, <<>>, has_admin.calls, O, R, T)
                 ELSE Await(co, "loop", [permissions |-> <<>>],
                            has_admin.calls, O, R, T)
        ELSE IF co.pc = "start" THEN loop(<<>>)
        ELSE loop(co.loc.permissions)

\* the tuples of the runs of the permission endpoints: the administrators
\* and members of organization 1 and the link of resource 1
PermissionTuples ==
    {<<fmt("user", u), role, fmt("organization", 1)>> :
         u \in Users, role \in {"admin", "member"}}
        \cup {<<fmt("organization", 1), "organization", fmt("resource", 1)>>}

PermissionInit ==
    /\ orgs = <<>>
    /\ resources = <<>>
    /\ tuples \in SUBSET PermissionTuples
    /\ nextOrg = 0
    /\ nextRes = 0
    /\ nreq = 0
    /\ resp = Idle
    /\ lo = NoCall
    /\ inflight = [s \in Slots |-> Idle]

\* a new permission request is taken while fewer than
\* MaxPermissionRequests of them are in progress
PermissionRoom ==
    /\ inflight[FreeSlot] = Idle
    /\ Cardinality({s \in Slots : inflight[s] # Idle}) < MaxPermissionRequests

\* One action for each handler, as for the mounted handlers: the request
\* arrives and takes its first await, or its coroutine is resumed at the
\* await it is suspended at.
CheckPermission ==
    \E e \in BOOLEAN :
        \/ \E requesting_user_id \in Users, user_id \in Users,
              permission \in {"read", "admin"}, resource_type \in ListTypes :
              \E resource_id \in IF resource_type = "organization" THEN OrgIds
                                  ELSE ResIds :
                  LET co == New(PermissionRequest("check_permission",
                                    requesting_user_id, user_id, permission,
                                    resource_id, resource_type))
                  IN  /\ PermissionRoom
                      /\ Step(FreeSlot, co,
                              permission_routes_check_permission(co, orgs,
                                  resources, tuples, Inputs(co, e)))
        \/ \E s \in Slots :
              /\ inflight[s].req.op = "check_permission"
              /\ Step(s, inflight[s],
                      permission_routes_check_permission(inflight[s], orgs,
                          resources, tuples, Inputs(inflight[s], e)))

GetUserPermissions ==
    \E e \in BOOLEAN :
        \/ \E requesting_user_id \in Users, user_id \in Users,
              organization_id \in OrgIds :
              LET co == New(PermissionRequest("get_user_permissions",
                                requesting_user_id, user_id, Unset,
                                organization_id, "organization"))
              IN  /\ PermissionRoom
                  /\ Step(FreeSlot, co,
                          get_user_permissions(co, orgs, resources, tuples,
                                               Inputs(co, e)))
        \/ \E s \in Slots :
              /\ inflight[s].req.op = "get_user_permissions"
              /\ Step(s, inflight[s],
                      get_user_permissions(inflight[s], orgs, resources,
                                           tuples, Inputs(inflight[s], e)))

\* The tuples change between the awaits of a permission request: the one
\* await of AuthorizationService.assign_user_to_organization and of
\* remove_user_from_organization, made by a request of another endpoint
AssignUser ==
    \E user_id \in Users, role \in {"admin", "member"}, e \in BOOLEAN :
        /\ resp = Idle
        /\ tuples' = assign_user_to_organization(tuples, user_id, 1, role, e).T
        /\ UNCHANGED <<orgs, resources, nextOrg, nextRes, resp, nreq, lo,
                       inflight>>

RemoveUser ==
    \E user_id \in Users, role \in {"admin", "member"}, e \in BOOLEAN :
        /\ resp = Idle
        /\ tuples' = remove_user_from_organization(tuples, user_id, 1, role, e).T
        /\ UNCHANGED <<orgs, resources, nextOrg, nextRes, resp, nreq, lo,
                       inflight>>

PermissionNext ==
    \/ Deliver
    \/ CheckPermission
    \/ GetUserPermissions
    \/ AssignUser
    \/ RemoveUser

PermissionSpec == PermissionInit /\ [][PermissionNext]_vars

\* ------------------------------------------------- a populated store
\* the same requests served on the store left by create_organization by u1,
\* add_member(u2, admin) by u1 and create_resource in the organization: one
\* organization with two administrators and one linked resource; a run
\* holds MaxConcRequests further requests
ConcInit ==
    /\ orgs = <<[id |-> 1, name |-> "n1", description |-> None,
                 created_at |-> 0]>>
    /\ resources = <<[id |-> 1, name |-> ResName, description |-> None,
                      resource_type |-> ResType, organization_id |-> 1,
                      created_at |-> 1]>>
    /\ tuples = {<<fmt("user", "u1"), "admin", fmt("organization", 1)>>,
                 <<fmt("user", "u2"), "admin", fmt("organization", 1)>>,
                 <<fmt("organization", 1), "organization", fmt("resource", 1)>>}
    /\ nextOrg = 1
    /\ nextRes = 1
    /\ nreq = MaxRequests - MaxConcRequests
    /\ resp = Idle
    /\ lo = NoCall
    /\ inflight = [s \in Slots |-> Idle]

ConcSpec == ConcInit /\ [][Next]_vars

\* ============================================================ properties
OrgPerms == {"can_add_member", "can_delete_member", "can_view_member",
             "can_add_resource"}
ResPerms == {"can_delete_resource", "can_view_resource"}
Relations == OrgPerms \cup ResPerms \cup {"admin", "member"}
Objects == {fmt("organization", o) : o \in OrgIds}
               \cup {fmt("resource", r) : r \in ResIds}

GatedOps == {"get_organization", "update_organization", "delete_organization",
             "add_member", "remove_member", "get_resource", "create_resource",
             "delete_resource"}
ListOps == {"list_organizations", "list_resources"}

\* the oracle's verdict on the tuple <<user, relation, object>> of a logged call
Verdict(t) == OracleCheck(tuples, t[1], t[2], t[3])

\* the roles the subject holds on the organization, in the tuple set T
RolesIn(T, u, o) ==
    {r \in {"admin", "member"} :
        <<fmt("user", u), r, fmt("organization", o)>> \in T}

RolesOf(u, o) == RolesIn(tuples, u, o)

\* every permission check of the subject on the organization, and on the
\* resources that organization alone owns, is refused in the tuple set T
DeniedEverywhere(T, u, o) ==
    /\ \A perm \in OrgPerms :
          ~check_permission(T, fmt("user", u), perm,
                            fmt("organization", o), FALSE).val
    /\ \A r \in ResIds :
          OwnersOf(T, fmt("resource", r)) = {fmt("organization", o)} =>
              \A perm \in ResPerms :
                  ~check_permission(T, fmt("user", u), perm,
                                    fmt("resource", r), FALSE).val

\* number of elements of K that are at most i
Rank(K, i) == Cardinality({j \in K : j <= i})

\* the coroutines of a state: the requests in progress and the response held
Coroutines == {resp} \cup {inflight[s] : s \in Slots}

\* A step of a coroutine, as seen in a step of the specification: Before is
\* the coroutine before the step (Idle when the request arrives in this
\* step), After the coroutine after it (the response when the handler
\* returned), NewEvents the calls and store accesses made in the step.
Stepped == resp = Idle /\ (resp' # Idle \/ inflight' # inflight)

Before ==
    IF inflight' = inflight THEN Idle
    ELSE inflight[CHOOSE s \in Slots : inflight'[s] # inflight[s]]

After ==
    IF resp' # Idle THEN resp'
    ELSE inflight'[CHOOSE s \in Slots : inflight'[s] # inflight[s]]

NewEvents == SubSeq(After.log, Len(Before.log) + 1, Len(After.log))

\* the calls of the step were answered from the tuples and the tables as
\* they were when the step was taken: a check by the oracle's verdict
\* (false when the call raised), a select by the presence of the row
AnsweredNow ==
    \A i \in 1..Len(NewEvents) :
        LET ev == NewEvents[i]
        IN  /\ ev.ev = "check" =>
                  ev.ok = (~ev.raised /\ OracleCheck(tuples, ev.t[1][1],
                                                     ev.t[1][2], ev.t[1][3]))
            /\ (ev.ev = "select" /\ After.req.op \notin ListOps) =>
                  ev.ok = (Find(IF After.req.op \in {"get_resource",
                                       "delete_resource",
                                       "check_resource_permissions"}
                                THEN resources ELSE orgs, After.req.id) # 0)

\* The conjuncts that quantify over every input of an operation are stated
\* for the states in which no response is held (resp = Idle): every state of
\* the tables and the tuples occurs there, since each response is followed
\* by Deliver.

\* ------------------------------------------------------------------ C1
\* C1: whenever the oracle call made by check_permission raises, for every
\* user, relation and object, check_permission returns false without raising;
\* in every coroutine, a logged check whose oracle call raised was answered
\* false, and a handler that returned on it did not end in a server error.
C1_FailClosed ==
    /\ resp = Idle =>
          \A u \in Users, rel \in Relations, obj \in Objects :
              LET r == check_permission(tuples, fmt("user", u), rel, obj, TRUE)
              IN  ~r.exc /\ ~r.val
    /\ \A co \in Coroutines :
          \A i \in 1..Len(co.log) :
              (co.log[i].ev = "check" /\ co.log[i].raised)
                  => /\ ~co.log[i].ok
                     /\ (i = Len(co.log) /\ co.pc = "done") => co.status < 500

\* a check whose oracle call raised although the oracle would have allowed it
C1_Witness ==
    \E i \in 1..Len(resp.log) :
        /\ resp.log[i].ev = "check"
        /\ resp.log[i].raised
        /\ ~resp.log[i].ok
        /\ Verdict(resp.log[i].t[1])
        /\ resp.req.op = "get_resource"

\* ------------------------------------------------------------------ C2
\* C2: when the oracle call of a check-gated handler raises, the handler
\* answers 403 (never 5xx), whoever the caller is; when every check of a list
\* handler raises, the handler answers 200 with an empty list.
C2_UnreachableDenies ==
    /\ (resp.req.op \in GatedOps /\ resp.log[1].raised) => resp.status = 403
    /\ (resp.req.op \in ListOps
          /\ \A i \in 2..Len(resp.log) : resp.log[i].raised)
         => (resp.status = 200 /\ resp.body = <<>>)

\* an administrator of the organization is refused because the oracle call raised
C2_Witness ==
    /\ resp.req.op = "delete_organization"
    /\ resp.log[1].raised
    /\ resp.status = 403
    /\ "admin" \in RolesOf(resp.req.user, resp.req.id)
    /\ Find(orgs, resp.req.id) # 0

\* ------------------------------------------------------------------ C3
\* C3: a list handler returns exactly the rows the store returned (all rows,
\* or those of the organization filter) whose check, for the caller and the
\* view permission, was true when it was made, one check per row, in the
\* order of the store.
C3_Rows ==
    IF Len(resp.log) = 1 THEN <<>>
    ELSE IF resp.req.op = "list_organizations" THEN resp.loc.all_orgs
    ELSE resp.loc.all_resources

C3_RowCheck(i) ==
    IF resp.req.op = "list_organizations"
    THEN <<fmt("user", resp.req.user), "can_view_member",
           fmt("organization", C3_Rows[i].id)>>
    ELSE <<fmt("user", resp.req.user), "can_view_resource",
           fmt("resource", C3_Rows[i].id)>>

C3_Kept == {i \in 1..Len(C3_Rows) : resp.log[i + 1].ok}

C3_Response ==
    resp.req.op \in ListOps =>
        /\ resp.status = 200
        /\ Len(resp.log) = Len(C3_Rows) + 1
        /\ \A i \in 1..Len(C3_Rows) :
              /\ resp.log[i + 1].ev = "check"
              /\ resp.log[i + 1].t = <<C3_RowCheck(i)>>
        /\ Len(resp.body) = Cardinality(C3_Kept)
        /\ \A i \in C3_Kept : resp.body[Rank(C3_Kept, i)] = C3_Rows[i]

\* the rows of the select are the rows of the table at that moment, and each
\* check has the oracle's verdict of the moment it is made
C3_Step ==
    (Stepped /\ After.req.op \in ListOps) =>
        /\ AnsweredNow
        /\ Before = Idle =>
              LET rows == IF After.req.op = "list_organizations" THEN orgs
                          ELSE IF After.req.id = 0 THEN resources
                          ELSE LET InOrg(r) == r.organization_id = After.req.id
                               IN  SelectSeq(resources, InOrg)
              IN  IF rows = <<>> THEN After.pc = "done" /\ After.body = <<>>
                  ELSE /\ After.pc = "check"
                       /\ rows = IF After.req.op = "list_organizations"
                                 THEN After.loc.all_orgs
                                 ELSE After.loc.all_resources

C3_ListExact == []C3_Response /\ [][C3_Step]_vars

\* two rows in the store, the first refused and the second returned
C3_Witness ==
    /\ resp.req.op \in ListOps
    /\ Len(C3_Rows) = 2
    /\ C3_Kept = {2}
    /\ ~resp.log[2].raised
    /\ Len(resp.body) = 1

\* ------------------------------------------------------------------ C4
\* C4: in get_organization and get_resource the check comes before the
\* lookup: a false check gives 403 with no lookup made, whether or not the
\* record exists, and 404 is given exactly when the check passed and the
\* lookup found no record.
C4_Absent ==
    IF resp.req.op = "get_organization"
    THEN Find(orgs, resp.req.id) = 0
    ELSE Find(resources, resp.req.id) = 0

C4_Response ==
    resp.req.op \in {"get_organization", "get_resource"} =>
        /\ resp.log[1].ev = "check"
        /\ ~resp.log[1].ok => (resp.status = 403 /\ Len(resp.log) = 1)
        /\ resp.log[1].ok =>
              (Len(resp.log) = 2 /\ resp.log[2].ev = "select")
        /\ resp.status = 404 <=> (resp.log[1].ok /\ ~resp.log[2].ok)

C4_Step ==
    (Stepped /\ After.req.op \in {"get_organization", "get_resource"}) =>
        AnsweredNow

C4_CheckBeforeLookup == []C4_Response /\ [][C4_Step]_vars

\* a denied caller asks for a record that does not exist, and gets 403
C4_Witness ==
    /\ resp.req.op = "get_organization"
    /\ ~resp.log[1].raised
    /\ ~resp.log[1].ok
    /\ C4_Absent
    /\ resp.status = 403
    /\ nextOrg >= resp.req.id

\* ------------------------------------------------------------------ C5
\* C5: once create_organization has answered 200 with the new id, a
\* get_organization of that id by the creator (the oracle answering) gives
\* 200, and one by a user holding no grant on it gives 403.
C5_Get(u, id) ==
    Alone(Req("get_organization", u, id, Unset, Unset, Unset, Unset),
          orgs, resources, tuples, {}).co.status

C5_CreatorCanGet ==
    (resp.req.op = "create_organization" /\ resp.status = 200) =>
        LET id == resp.body[1].id
        IN  /\ C5_Get(resp.req.user, id) = 200
            /\ \A u2 \in Users : RolesOf(u2, id) = {} => C5_Get(u2, id) = 403

\* ------------------------------------------------------------------ C6
\* C6: a user holding only the member role on an organization reads it
\* (get_organization, served alone, gives 200 when the record exists and the
\* oracle answers), while every update_organization and delete_organization
\* by that user gives 403 and leaves the organization table as it was:
\* served alone from any state, and in every interleaving when the user
\* holds only the member role at the moment of the check.
C6_Alone ==
    \A u \in Users, o \in OrgIds :
        (resp = Idle /\ RolesOf(u, o) = {"member"}) =>
            /\ Find(orgs, o) # 0 =>
                  Alone(Req("get_organization", u, o, Unset, Unset, Unset,
                            Unset), orgs, resources, tuples, {}).co.status = 200
            /\ \A name \in UpdateNames, d \in UpdateDescs, F \in SUBSET {1} :
                  LET out == Alone(Req("update_organization", u, o, Unset,
                                       Unset, name, d),
                                   orgs, resources, tuples, F)
                  IN  out.co.status = 403 /\ out.orgs = orgs
            /\ \A F \in SUBSET {1} :
                  LET out == Alone(Req("delete_organization", u, o, Unset,
                                       Unset, Unset, Unset),
                                   orgs, resources, tuples, F)
                  IN  out.co.status = 403 /\ out.orgs = orgs

C6_Step ==
    (/\ Stepped
     /\ Before = Idle
     /\ After.req.op \in {"update_organization", "delete_organization"}
     /\ RolesOf(After.req.user, After.req.id) = {"member"})
        => /\ After.pc = "done"
           /\ After.status = 403
           /\ Len(After.log) = 1
           /\ orgs' = orgs

C6_MemberReadOnly == []C6_Alone /\ [][C6_Step]_vars

\* a member (added by the administrator) asks to rename the organization,
\* the oracle answers, and the request is refused
C6_Witness ==
    /\ resp.req.op = "update_organization"
    /\ RolesOf(resp.req.user, resp.req.id) = {"member"}
    /\ \E a \in Users \ {resp.req.user} : "admin" \in RolesOf(a, resp.req.id)
    /\ ~resp.log[1].raised
    /\ resp.req.name = "n2"
    /\ Find(orgs, resp.req.id) # 0
    /\ orgs[Find(orgs, resp.req.id)].name = "n1"
    /\ resp.status = 403

\* ------------------------------------------------------------------ C7
\* C7: whenever assign_user_to_organization(S, O, "admin") reports success,
\* the can_view_member check of S on O that follows, the oracle answering,
\* is true; for every subject and organization, in a handler or not.
C7_AdminCanView ==
    /\ resp = Idle =>
          \A S \in Users, O \in OrgIds, err \in BOOLEAN :
              LET a == assign_user_to_organization(tuples, S, O, "admin", err)
              IN  (~a.exc /\ a.val) => can_view_member(a.T, S, O, FALSE).val
    /\ \A i \in 1..Len(resp.log) :
          (resp.log[i].ev = "write" /\ resp.log[i].ok
              /\ resp.log[i].t[1][2] = "admin")
            => can_view_member(tuples, resp.log[i].t[1][1][2],
                               resp.log[i].t[1][3][2], FALSE).val

\* an administrator has made another user administrator
C7_Witness ==
    /\ resp.req.op = "add_member"
    /\ resp.req.role = "admin"
    /\ resp.req.member # resp.req.user
    /\ resp.status = 200
    /\ resp.log[Len(resp.log)].ev = "write"
    /\ resp.log[Len(resp.log)].ok

\* ------------------------------------------------------------------ C8
\* C8: whenever remove_user_from_organization(S, O, role) reports success
\* and S holds no other role on O, every permission check of S on O and on
\* the resources O owns is false.
C8_RevokedDenied ==
    /\ resp = Idle =>
          \A S \in Users, O \in OrgIds, role \in {"admin", "member"},
             err \in BOOLEAN :
              LET a == remove_user_from_organization(tuples, S, O, role, err)
              IN  (~a.exc /\ a.val /\ RolesIn(tuples, S, O) \ {role} = {})
                      => DeniedEverywhere(a.T, S, O)
    /\ \A i \in 1..Len(resp.log) :
          (resp.log[i].ev = "delete" /\ resp.log[i].ok
              /\ RolesOf(resp.log[i].t[1][1][2], resp.log[i].t[1][3][2])
                     \ {resp.log[i].t[1][2]} = {})
            => DeniedEverywhere(tuples, resp.log[i].t[1][1][2],
                                resp.log[i].t[1][3][2])

\* the only role of a user on an organization that owns a resource has
\* been removed
C8_Witness ==
    /\ resp.req.op = "remove_member"
    /\ resp.status = 200
    /\ resp.log[Len(resp.log)].ev = "delete"
    /\ resp.log[Len(resp.log)].ok
    /\ RolesOf(resp.req.member, resp.req.id) = {}
    /\ \E r \in ResIds :
          OwnersOf(tuples, fmt("resource", r))
              = {fmt("organization", resp.req.id)}

\* ------------------------------------------------------------------ C9
\* C9: a resource inherits from its organization: when the link tuple of R
\* to O and the admin tuple of S on O are both stored, and right after a
\* create_resource whose link write succeeded, can_delete_resource of S on
\* R is true; a user with no role on any owner of R, or on the organization
\* of the record R, is refused can_view_resource and can_delete_resource.
C9_LinkOk ==
    /\ resp.req.op = "create_resource"
    /\ resp.status = 200
    /\ resp.log[Len(resp.log)].ev = "write"
    /\ resp.log[Len(resp.log)].ok

C9_Inheritance ==
    /\ \A S \in Users, O \in OrgIds, R \in ResIds :
          (resp = Idle
              /\ <<fmt("organization", O), "organization", fmt("resource", R)>>
                     \in tuples
              /\ "admin" \in RolesOf(S, O))
            => can_delete_resource(tuples, S, R, FALSE).val
    /\ C9_LinkOk =>
          \A S \in Users :
              "admin" \in RolesOf(S, resp.req.id) =>
                  can_delete_resource(tuples, S, resp.body[1].id, FALSE).val
    /\ \A S \in Users, R \in ResIds :
          (/\ resp = Idle
           /\ \/ \A o \in OwnersOf(tuples, fmt("resource", R)) :
                    RolesOf(S, o[2]) = {}
              \/ /\ Find(resources, R) # 0
                 /\ RolesOf(S, resources[Find(resources, R)].organization_id)
                        = {})
            => /\ ~can_view_resource(tuples, S, R, FALSE).val
               /\ ~can_delete_resource(tuples, S, R, FALSE).val

\* a member has created a resource in an organization that another user
\* administers
C9_Witness ==
    /\ C9_LinkOk
    /\ RolesOf(resp.req.user, resp.req.id) = {"member"}
    /\ \E S \in Users \ {resp.req.user} : "admin" \in RolesOf(S, resp.req.id)

\* ----------------------------------------------------------------- C10
\* C10: create_resource first checks can_add_resource of the caller on the
\* owning organization; the record is committed only in a step that follows
\* a true check, the link tuple is written only in a step that follows the
\* commit, and a refused caller gets 403 at once, with the resource table
\* and the tuples unchanged.
C10_Step ==
    (Stepped /\ After.req.op = "create_resource") =>
        LET log == After.log
        IN  /\ log[1].ev = "check"
            /\ log[1].t = <<<<fmt("user", After.req.user), "can_add_resource",
                             fmt("organization", After.req.id)>>>>
            /\ \A i \in 1..Len(log) :
                  /\ log[i].ev = "commit" => (i = 2 /\ log[1].ok)
                  /\ log[i].ev = "write" => (i = 4 /\ log[2].ev = "commit")
            /\ resources' # resources =>
                  (Len(Before.log) = 1 /\ Before.log[1].ok
                      /\ NewEvents = <<DbEv("commit", TRUE)>>)
            /\ tuples' # tuples =>
                  (Len(Before.log) = 3 /\ Before.log[2].ev = "commit"
                      /\ NewEvents[1].ev = "write")
            /\ ~log[1].ok =>
                  /\ Before = Idle
                  /\ After.pc = "done"
                  /\ After.status = 403
                  /\ resources' = resources
                  /\ tuples' = tuples
                  /\ Len(log) = 1

C10_CreateResourceGated == [][C10_Step]_vars

\* a user with no role on an existing organization asks to create a
\* resource in it, the oracle answers, and the request is refused
C10_Witness ==
    /\ resp.req.op = "create_resource"
    /\ ~resp.log[1].raised
    /\ Find(orgs, resp.req.id) # 0
    /\ RolesOf(resp.req.user, resp.req.id) = {}
    /\ resp.status = 403
    /\ resources = <<>>

\* ----------------------------------------------------------------- C11
\* C11: when create_resource or create_organization has committed the record
\* and the tuple write that follows failed, the answer is still 200 with the
\* record, the record is in its table, no tuple mentions its object, and for
\* every user the gated handlers refuse it: get and delete give 403 and the
\* listings leave it out.
C11_Failed ==
    /\ resp.req.op \in {"create_resource", "create_organization"}
    /\ \E i \in 1..Len(resp.log) :
          resp.log[i].ev = "write" /\ ~resp.log[i].ok

C11_Serve(op, u, id) ==
    Alone(Req(op, u, id, Unset, Unset, Unset, Unset),
          orgs, resources, tuples, {}).co

C11_NoCompensation ==
    C11_Failed =>
        /\ resp.status = 200
        /\ Len(resp.body) = 1
        /\ LET id == resp.body[1].id
               isres == resp.req.op = "create_resource"
               obj == IF isres THEN fmt("resource", id)
                      ELSE fmt("organization", id)
           IN  /\ IF isres THEN Find(resources, id) # 0 ELSE Find(orgs, id) # 0
               /\ \A t \in tuples : t[1] # obj /\ t[3] # obj
               /\ \A u \in Users :
                     IF isres
                     THEN /\ C11_Serve("get_resource", u, id).status = 403
                          /\ C11_Serve("delete_resource", u, id).status = 403
                          /\ \A f \in {0} \cup OrgIds :
                                \A x \in Range(C11_Serve("list_resources", u,
                                                         f).body) :
                                    x.id # id
                     ELSE /\ C11_Serve("get_organization", u, id).status = 403
                          /\ C11_Serve("delete_organization", u, id).status = 403
                          /\ \A x \in Range(C11_Serve("list_organizations", u,
                                                      0).body) :
                                x.id # id

\* an administrator of the organization created a resource whose link write
\* failed: the row is stored and the administrator is answered 200
C11_Witness ==
    /\ C11_Failed
    /\ resp.req.op = "create_resource"
    /\ "admin" \in RolesOf(resp.req.user, resp.req.id)
    /\ resp.status = 200
    /\ Find(resources, resp.body[1].id) # 0

\* ----------------------------------------------------------------- C12
\* C12: the commit of a permitted update_organization of an existing
\* organization leaves each field present in the request at the request's
\* value and each absent field at its previous value, keeps id and
\* created_at, and changes no other organization row and no tuple.
C12_Step ==
    (/\ Stepped
     /\ After.req.op = "update_organization"
     /\ Before.pc = "commit"
     /\ Before.log[1].ok
     /\ Find(orgs, After.req.id) # 0) =>
        LET i == Find(orgs, After.req.id)
            req == After.req
        IN  /\ Len(orgs') = Len(orgs)
            /\ orgs'[i].name = IF req.name = Unset THEN orgs[i].name
                                ELSE req.name
            /\ orgs'[i].description = IF req.description = Unset
                                       THEN orgs[i].description
                                       ELSE req.description
            /\ orgs'[i].id = orgs[i].id
            /\ orgs'[i].created_at = orgs[i].created_at
            /\ \A j \in 1..Len(orgs) : j # i => orgs'[j] = orgs[j]
            /\ tuples' = tuples

C12_PartialUpdate == [][C12_Step]_vars

\* ----------------------------------------------------------------- C13
\* C13: delete_organization is decided by one check of the caller's
\* can_delete_member on the organization and delete_resource by one check of
\* the caller's can_delete_resource on the resource; a false check gives 403
\* and, once the check was true and the row was found, the row is gone and
\* the answer is 200.
C13_Gate(op, permission, type, rows) ==
    resp.req.op = op =>
        /\ resp.log[1].ev = "check"
        /\ resp.log[1].t = <<<<fmt("user", resp.req.user), permission,
                               fmt(type, resp.req.id)>>>>
        /\ \A i \in 2..Len(resp.log) : resp.log[i].ev # "check"
        /\ ~resp.log[1].ok => (resp.status = 403 /\ Len(resp.log) = 1)
        /\ (resp.log[1].ok /\ resp.log[2].ok) =>
              (resp.status = 200 /\ Find(rows, resp.req.id) = 0)

C13_DeleteGates ==
    /\ C13_Gate("delete_organization", "can_delete_member", "organization", orgs)
    /\ C13_Gate("delete_resource", "can_delete_resource", "resource", resources)

\* ----------------------------------------------------------------- C14
\* C14: every step of delete_organization removes at most the organization
\* row, and only in the step that answers 200, and every step of
\* delete_resource at most the resource row: the tuples, the other table and
\* (for delete_organization) the resource rows of the organization stay as
\* they were, and every check on the deleted object's id gives the verdict it
\* gave before the step.
C14_Step ==
    (Stepped /\ After.req.op \in {"delete_organization", "delete_resource"}) =>
        LET isorg == After.req.op = "delete_organization"
            id == After.req.id
            obj == IF isorg THEN fmt("organization", id) ELSE fmt("resource", id)
            rows == IF isorg THEN orgs ELSE resources
            rows2 == IF isorg THEN orgs' ELSE resources'
        IN  /\ tuples' = tuples
            /\ IF isorg THEN resources' = resources ELSE orgs' = orgs
            /\ rows2 = IF After.status = 200 /\ Find(rows, id) # 0
                       THEN DeleteRow(rows, Find(rows, id))
                       ELSE rows
            /\ After.status = 200 => Find(rows2, id) = 0
            /\ \A u \in Users, rel \in Relations :
                  OracleCheck(tuples', fmt("user", u), rel, obj)
                      = OracleCheck(tuples, fmt("user", u), rel, obj)

C14_NoCascade == [][C14_Step]_vars

\* an organization that had an administrator, a linked resource and a
\* resource row was deleted: the tuples and the resource row are still there
C14_Witness ==
    /\ resp.req.op = "delete_organization"
    /\ resp.status = 200
    /\ Find(orgs, resp.req.id) = 0
    /\ "admin" \in RolesOf(resp.req.user, resp.req.id)
    /\ \E i \in 1..Len(resources) :
          /\ resources[i].organization_id = resp.req.id
          /\ <<fmt("organization", resp.req.id), "organization",
               fmt("resource", resources[i].id)>> \in tuples

\* ----------------------------------------------------------------- C15
\* C15: a delete_resource whose can_delete_resource check is false gives 403,
\* and one whose check was true and whose lookup finds no row for the id
\* gives 404; in both cases the tables and the tuples are left as they were.
C15_Step ==
    (Stepped /\ After.req.op = "delete_resource") =>
        LET same == <<orgs', resources', tuples'>> = <<orgs, resources, tuples>>
        IN  /\ (Before = Idle
                  /\ ~can_delete_resource(tuples, After.req.user, After.req.id,
                                          After.log[1].raised).val)
                 => (After.pc = "done" /\ After.status = 403 /\ same)
            /\ (Before.pc = "select" /\ Find(resources, After.req.id) = 0)
                 => (After.pc = "done" /\ After.status = 404 /\ same)
            /\ After.status = 403 => (Len(After.log) = 1 /\ ~After.log[1].ok)

C15_DeleteAbsentResource == [][C15_Step]_vars

\* a second delete by an administrator: the row is gone, the link tuple is
\* still there, the check passes and the answer is 404
C15_Witness ==
    /\ resp.req.op = "delete_resource"
    /\ resp.status = 404
    /\ resp.log[1].ok
    /\ Find(resources, resp.req.id) = 0
    /\ \E o \in OrgIds :
          /\ <<fmt("organization", o), "organization",
               fmt("resource", resp.req.id)>> \in tuples
          /\ "admin" \in RolesOf(resp.req.user, o)

\* ----------------------------------------------------------------- C16
\* C16: in add_member and remove_member, once the caller's check was true,
\* the organization was found and the role is admin or member, the handler
\* issues the one oracle write (delete); if that call failed the answer is
\* 500 with no body, if it succeeded the answer is 200 and the tuple is
\* present (absent); 200 is never answered after a failed call.
C16_Passed ==
    /\ resp.req.op \in {"add_member", "remove_member"}
    /\ resp.log[1].ok
    /\ Len(resp.log) >= 2 /\ resp.log[2].ok
    /\ resp.req.role \in {"admin", "member"}

C16_WriteFailureSurfaced ==
    C16_Passed =>
        LET isadd == resp.req.op = "add_member"
            t == <<fmt("user", resp.req.member), resp.req.role,
                   fmt("organization", resp.req.id)>>
        IN  /\ Len(resp.log) = 3
            /\ resp.log[3].ev = IF isadd THEN "write" ELSE "delete"
            /\ resp.log[3].t = <<t>>
            /\ resp.log[3].ok = ~resp.log[3].raised
            /\ resp.status = IF resp.log[3].ok THEN 200 ELSE 500
            /\ resp.status = 500 => resp.body = <<>>
            /\ resp.status = 200 => (t \in tuples) = isadd

\* an administrator added a member while the oracle's write call failed
C16_Witness ==
    /\ C16_Passed
    /\ resp.req.op = "add_member"
    /\ resp.log[3].raised
    /\ resp.status = 500
    /\ <<fmt("user", resp.req.member), resp.req.role,
         fmt("organization", resp.req.id)>> \notin tuples

\* ----------------------------------------------------------------- C17
\* C17: in add_member and remove_member, for a caller whose check was true
\* and whose lookup finds the organization, a role other than admin and
\* member is
\* answered 400, no write or delete is sent to the oracle, and the tuples
\* and the tables are left as they were.
C17_Step ==
    (/\ Stepped
     /\ After.req.op \in {"add_member", "remove_member"}
     /\ Before.pc = "select"
     /\ Before.log[1].ok
     /\ Find(orgs, After.req.id) # 0
     /\ After.req.role \notin {"admin", "member"}) =>
        /\ After.pc = "done"
        /\ After.status = 400
        /\ \A i \in 1..Len(After.log) : After.log[i].ev \notin {"write", "delete"}
        /\ <<orgs', resources', tuples'>> = <<orgs, resources, tuples>>

C17_BadRoleRejected == [][C17_Step]_vars

\* an administrator asked to remove the role "owner" and was answered 400
C17_Witness ==
    /\ resp.req.op = "remove_member"
    /\ resp.req.role = "owner"
    /\ resp.log[1].ok
    /\ Find(orgs, resp.req.id) # 0
    /\ resp.status = 400

\* ----------------------------------------------------------------- C18
\* C18: with the oracle reachable (no transport error), removing a role
\* tuple never raises and is reported as success whether or not the tuple
\* existed: remove_user_from_organization returns true and remove_member,
\* served alone, does not answer 500.
C18_AbsentUnassignOk ==
    resp = Idle =>
        \A S \in Users, O \in OrgIds, role \in {"admin", "member"} :
            LET a == remove_user_from_organization(tuples, S, O, role, FALSE)
            IN  /\ ~a.exc
                /\ a.val
                /\ \A u \in Users :
                      Alone(Req("remove_member", u, O, S, role, Unset, Unset),
                            orgs, resources, tuples, {}).co.status # 500

\* ----------------------------------------------------------------- C19
\* C19: with the oracle reachable, assigning a role whose tuple already
\* exists leaves the tuples as they are and is reported as success:
\* assign_user_to_organization returns true and add_member, served alone,
\* does not answer 500.
C19_AssignIdempotent ==
    resp = Idle =>
        \A S \in Users, O \in OrgIds, role \in {"admin", "member"} :
            <<fmt("user", S), role, fmt("organization", O)>> \in tuples =>
                LET a == assign_user_to_organization(tuples, S, O, role, FALSE)
                IN  /\ ~a.exc
                    /\ a.T = tuples
                    /\ a.val
                    /\ \A u \in Users :
                          Alone(Req("add_member", u, O, S, role, Unset,
                                    Unset),
                                orgs, resources, tuples, {}).co.status # 500

\* ----------------------------------------------------------------- C20
\* C20: list_objects never raises; when the oracle call failed it returns the
\* empty list; otherwise it returns the objects of the oracle's answer, each
\* of them exactly once.
C20_ListObjectsDedup ==
    (lo.called /\ lo.op = "list_objects") =>
        /\ ~lo.exc
        /\ lo.raised => lo.result = <<>>
        /\ (~lo.raised /\ lo.has) => Range(lo.result) = Range(lo.objects)
        /\ \A i, j \in 1..Len(lo.result) :
              lo.result[i] = lo.result[j] => i = j

\* ----------------------------------------------------------------- C21
\* C21: every facade operation sends exactly one call to the oracle, failed
\* or not; a check answers what the oracle holds at the moment of the call
\* (false when the call failed), so a check right after a successful grant
\* or revocation gives the new answer; in a handler no failed call is
\* followed by the same call again, and every check has the verdict of the
\* tuples as they are in the step the check is made in.
C21_OneCall(r, kind, t, err) ==
    /\ Len(r.calls) = 1
    /\ r.calls[1].ev = kind
    /\ r.calls[1].t = <<t>>
    /\ err => r.calls[1].raised

C21_Facade ==
    \A S \in Users, O \in OrgIds, R \in ResIds, err \in BOOLEAN :
        LET u == fmt("user", S)
            o == fmt("organization", O)
            x == fmt("resource", R)
            Chk(r, rel, obj) ==
                /\ C21_OneCall(r, "check", <<u, rel, obj>>, err)
                /\ r.val = (~err /\ OracleCheck(tuples, u, rel, obj))
        IN  /\ \A role \in {"admin", "member"} :
                  LET a == assign_user_to_organization(tuples, S, O, role, err)
                      d == remove_user_from_organization(tuples, S, O, role, err)
                  IN  /\ C21_OneCall(a, "write", <<u, role, o>>, err)
                      /\ C21_OneCall(d, "delete", <<u, role, o>>, err)
                      /\ a.val => can_view_member(a.T, S, O, FALSE).val
                      /\ (d.val /\ RolesIn(d.T, S, O) = {}) =>
                            ~can_view_member(d.T, S, O, FALSE).val
            /\ C21_OneCall(assign_resource_to_organization(tuples, R, O, err),
                           "write", <<o, "organization", x>>, err)
            /\ Chk(can_add_member(tuples, S, O, err), "can_add_member", o)
            /\ Chk(can_delete_member(tuples, S, O, err), "can_delete_member", o)
            /\ Chk(can_view_member(tuples, S, O, err), "can_view_member", o)
            /\ Chk(can_add_resource(tuples, S, O, err), "can_add_resource", o)
            /\ Chk(can_delete_resource(tuples, S, R, err), "can_delete_resource", x)
            /\ Chk(can_view_resource(tuples, S, R, err), "can_view_resource", x)

C21_Step ==
    Stepped =>
        /\ \A i \in 1..Len(NewEvents) :
              LET e == NewEvents[i]
              IN  e.ev = "check" =>
                      e.ok = (~e.raised /\ OracleCheck(tuples, e.t[1][1],
                                                       e.t[1][2], e.t[1][3]))
        /\ \A i \in 1..(Len(After.log) - 1) :
              After.log[i].raised =>
                  <<After.log[i + 1].ev, After.log[i + 1].t>>
                      # <<After.log[i].ev, After.log[i].t>>

C21_NoRetryNoCache == [](resp = Idle => C21_Facade) /\ [][C21_Step]_vars

\* a listing in which the check of the first row failed and the check of the
\* second row, made once, was answered by the oracle with true
C21_Witness ==
    /\ resp.req.op = "list_organizations"
    /\ Len(resp.log) = 3
    /\ resp.log[2].raised
    /\ ~resp.log[3].raised /\ resp.log[3].ok
    /\ Len(resp.body) = 1

\* ----------------------------------------------------------------- C22
\* C22: in update_organization, delete_organization, add_member,
\* remove_member, create_resource and delete_resource, a caller whose check
\* returned false is answered 403 in the step of the check, and the
\* organization rows, the resource rows and the tuples are left by the
\* request as they were.
C22_Ops == {"update_organization", "delete_organization", "add_member",
            "remove_member", "create_resource", "delete_resource"}

C22_Step ==
    (/\ Stepped
     /\ After.req.op \in C22_Ops
     /\ ~After.log[1].ok) =>
        /\ Before = Idle
        /\ After.log[1].ev = "check"
        /\ After.pc = "done"
        /\ After.status = 403
        /\ Len(After.log) = 1
        /\ <<orgs', resources', tuples'>> = <<orgs, resources, tuples>>

C22_DeniedNoEffect == [][C22_Step]_vars

\* a member of an existing organization asked to update it and was refused
C22_Witness ==
    /\ resp.req.op = "update_organization"
    /\ resp.req.name = "n2"
    /\ ~resp.log[1].raised
    /\ resp.status = 403
    /\ RolesOf(resp.req.user, resp.req.id) = {"member"}
    /\ Find(orgs, resp.req.id) # 0
    /\ orgs[Find(orgs, resp.req.id)].name = "n1"

\* ----------------------------------------------------------------- C23
\* C23: a successful assign_user_to_organization(S, O, role) adds the tuple
\* (user:S, role, organization:O) and nothing else, a successful
\* remove_user_from_organization removes that tuple and nothing else, a
\* successful assign_resource_to_organization(R, O) adds
\* (organization:O, organization, resource:R) and nothing else; every stored
\* tuple is a role tuple or a link tuple with identifiers of the form type:id.
C23_WellFormed(t) ==
    \/ /\ t[1] \in {fmt("user", u) : u \in Users}
       /\ t[2] \in {"admin", "member"}
       /\ t[3] \in {fmt("organization", o) : o \in OrgIds}
    \/ /\ t[1] \in {fmt("organization", o) : o \in OrgIds}
       /\ t[2] = "organization"
       /\ t[3] \in {fmt("resource", r) : r \in ResIds}

C23_TupleVocabulary ==
    /\ \A t \in tuples : C23_WellFormed(t)
    /\ \A i \in 1..Len(resp.log) :
          resp.log[i].ev \in {"write", "delete"} =>
              (Len(resp.log[i].t) = 1 /\ C23_WellFormed(resp.log[i].t[1]))
    /\ resp = Idle =>
          \A S \in Users, O \in OrgIds, R \in ResIds, err \in BOOLEAN :
              /\ \A role \in {"admin", "member"} :
                    LET t == <<fmt("user", S), role, fmt("organization", O)>>
                        a == assign_user_to_organization(tuples, S, O, role, err)
                        d == remove_user_from_organization(tuples, S, O, role, err)
                    IN  /\ a.val => (t \notin tuples /\ a.T = tuples \cup {t})
                        /\ ~a.val => a.T = tuples
                        /\ d.val => (t \in tuples /\ d.T = tuples \ {t})
                        /\ ~d.val => d.T = tuples
              /\ LET t == <<fmt("organization", O), "organization",
                            fmt("resource", R)>>
                     a == assign_resource_to_organization(tuples, R, O, err)
                 IN  /\ a.val => (t \notin tuples /\ a.T = tuples \cup {t})
                     /\ ~a.val => a.T = tuples

\* an administrator made another user a member: the one member tuple is
\* stored and that user holds no admin tuple
C23_Witness ==
    /\ resp.req.op = "add_member"
    /\ resp.req.role = "member"
    /\ resp.status = 200
    /\ resp.log[3].t = <<<<fmt("user", resp.req.member), "member",
                           fmt("organization", resp.req.id)>>>>
    /\ RolesOf(resp.req.member, resp.req.id) = {"member"}

\* ----------------------------------------------------------------- C24
\* C24: add_member and remove_member decide in the order check, existence,
\* role: a caller whose check is false is answered 403 whatever the
\* organization and the role, a permitted caller whose lookup finds no row
\* is answered 404 whatever the role, and 400 is answered exactly when the
\* check was true, the lookup found the row and the role is neither admin
\* nor member.
C24_Step ==
    (Stepped /\ After.req.op \in {"add_member", "remove_member"}) =>
        LET req == After.req
            e1 == After.log # <<>> /\ After.log[1].raised
            allowed == IF req.op = "add_member"
                       THEN can_add_member(tuples, req.user, req.id, e1).val
                       ELSE can_delete_member(tuples, req.user, req.id, e1).val
            exists == Find(orgs, req.id) # 0
            valid == req.role \in {"admin", "member"}
        IN  /\ After.log # <<>> /\ After.log[1].ev = "check"
            /\ Before = Idle =>
                  IF allowed THEN After.pc = "select"
                  ELSE After.pc = "done" /\ After.status = 403
            /\ Before.pc = "select" =>
                  /\ ~exists => (After.pc = "done" /\ After.status = 404)
                  /\ (After.status = 400) = (exists /\ ~valid)
                  /\ (exists /\ valid) => After.pc \in {"write", "delete"}
            /\ After.status = 400 => (Before.pc = "select" /\ Before.log[1].ok)

C24_ErrorPrecedence == [][C24_Step]_vars

\* an administrator of a deleted organization asked to add a member with the
\* role "owner": the answer is 404, not 400
C24_Witness ==
    /\ resp.req.op = "add_member"
    /\ resp.req.role = "owner"
    /\ resp.log[1].ok
    /\ Find(orgs, resp.req.id) = 0
    /\ resp.status = 404

\* ----------------------------------------------------------------- C25
\* C25: under concurrent requests, whenever update_organization changes a
\* row, or delete_organization or delete_resource removes one, the caller of
\* that request holds the permission the handler checks (can_add_member on
\* the organization, can_delete_resource on the resource) at the moment the
\* row is changed.
C25_Step ==
    (/\ Stepped
     /\ After.req.op \in {"update_organization", "delete_organization",
                          "delete_resource"}
     /\ <<orgs', resources'>> # <<orgs, resources>>) =>
        IF After.req.op = "delete_resource"
        THEN OracleCheck(tuples, fmt("user", After.req.user),
                         "can_delete_resource", fmt("resource", After.req.id))
        ELSE OracleCheck(tuples, fmt("user", After.req.user), "can_add_member",
                         fmt("organization", After.req.id))

C25_EffectNeedsPermission == [][C25_Step]_vars

\* ----------------------------------------------------------------- C26
\* C26: a permission request whose requester is not the checked user and
\* has no admin access to the named object is answered 403 with no check
\* result, whatever the resource_type.  With the handler cut at its awaits:
\* every check of the request is answered from the tuples of its own step,
\* and a request of another user's permissions that is answered without a
\* successful admin check of the requester in its log, by a requester who
\* has no admin access when it is answered (no admin tuple on the
\* organization; for a resource, on no organization that owns it), is
\* answered 403 with an empty body.
PermissionOps == {"check_permission", "get_user_permissions"}

C26_HasAdmin(u, resource_type, resource_id) ==
    IF resource_type = "organization"
    THEN OrgAdmin(tuples, fmt("user", u), fmt("organization", resource_id))
    ELSE \E o \in OwnersOf(tuples, fmt(resource_type, resource_id)) :
             OrgAdmin(tuples, fmt("user", u), o)

\* the log of the request holds a check of the requester's admin access to
\* the named object that was answered true
C26_AdminChecked(co) ==
    \E i \in 1..Len(co.log) :
        co.log[i] = Ev("check",
                       <<<<fmt("user", co.req.requesting_user_id), "admin",
                           fmt(co.req.permission_check.resource_type,
                               co.req.permission_check.resource_id)>>>>,
                       FALSE, TRUE)

C26_Step ==
    (Stepped /\ After.req.op \in PermissionOps) =>
        /\ AnsweredNow
        /\ (/\ After.pc = "done"
            /\ After.req.requesting_user_id # After.req.permission_check.user_id
            /\ ~C26_AdminChecked(After)
            /\ ~C26_HasAdmin(After.req.requesting_user_id,
                             After.req.permission_check.resource_type,
                             After.req.permission_check.resource_id)) =>
               (After.status = 403 /\ After.body = <<>>)

C26_OnlySelfOrAdmin == [][C26_Step]_vars
====
